---- MODULE Spec2Model ----
(***************************************************************************)
(* A model of the runesco NES emulator core: the PPU timing and register   *)
(* file (src/src/ppu), the memory bus (src/src/bus.rs) and the CPU run     *)
(* loop (src/src/cpu.rs).  Rust values are modelled by what they hold:     *)
(* u8/u16 as naturals kept in range by the arithmetic the code performs,   *)
(* Option<u8> as a sequence of length 0 or 1, fixed-size arrays and Vec    *)
(* as a length, a fill byte and the cells that differ from the fill.       *)
(***************************************************************************)
EXTENDS Integers, Sequences, FiniteSets, TLC

VARIABLES
    bus,         \* Bus { cpu_vram, ppu: NesPPU, cycles }
    cpu,         \* CPU registers used by the run loop, and the loop position
    fault,       \* "" while running, else the panic that aborted the program
    callbacks,   \* number of invocations of Bus::gameloop_callback
    dots,        \* history: sum of the arguments given to NesPPU::tick
    frames,      \* history: number of NesPPU::tick calls that returned true
    cbFrame,     \* history: callback invocations since the last scanline wrap
    enAt241,     \* history: NMI-enable at the entry of scanline 241, this frame
    statusRead,  \* history: STATUS was read in the current vertical blank (241..261)
    nmis,        \* history: number of CPU::interrupt(NMI) calls
    last,        \* history: the last register operation, its argument and result
    nops         \* history: number of register operations performed

vars == <<bus, cpu, fault, callbacks, dots, frames, cbFrame, enAt241,
          statusRead, nmis, last, nops>>

(***************************************************************************)
(* Bounds of the model.                                                    *)
(***************************************************************************)
\* ticks are accepted until this many frames have completed
MaxFrames == 2
\* register operations (SpecRegs) are accepted up to this many
MaxOps == 5
\* the CPU run (SpecCpu) is followed until this many frames have completed
MaxCpuFrames == 1
\* and its program ends below this address
ProgramEnd == 65520
\* bus reads and writes (SpecMem) are accepted up to this many
MaxMemOps == 3
\* resets and instructions of the CPU (SpecRun) are followed up to this many
MaxRunSteps == 3

(***************************************************************************)
(* Program constants.                                                      *)
(***************************************************************************)
DotsPerScanline == 341
VblankScanline == 241
ScanlinesPerFrame == 262
PRG_ROM_PAGE_SIZE == 16384
CHR_ROM_PAGE_SIZE == 8192
VramSize == 2048
NmiCpuCycles == 2

(***************************************************************************)
(* Values.                                                                 *)
(***************************************************************************)
None == << >>
Some(v) == << v >>
IsSome(o) == Len(o) > 0

\* bit k of the byte v
Bit(v, k) == (v \div (2 ^ k)) % 2
\* v with bit k set to b (b in {0, 1})
WithBit(v, k, b) == v - Bit(v, k) * (2 ^ k) + b * (2 ^ k)

\* [fill; len] : an array or Vec of len bytes, all equal to fill
Filled(len, fill) == [len |-> len, dflt |-> fill, set |-> [i \in {} |-> 0]]
\* a[i]
At(a, i) == IF i \in DOMAIN a.set THEN a.set[i] ELSE a.dflt
\* a[i] = x
Store(a, i, x) ==
    LET keys == IF x = a.dflt THEN DOMAIN a.set \ {i} ELSE DOMAIN a.set \cup {i}
    IN  [a EXCEPT !.set = [j \in keys |-> IF j = i THEN x ELSE a.set[j]]]

(***************************************************************************)
(* StatusRegister and ControlRegister (ppu/status.rs, ppu/controller.rs).  *)
(***************************************************************************)
StatusRegister_new == 0
set_vblank_status(s, b) == WithBit(s, 7, IF b THEN 1 ELSE 0)
reset_vblank_status(s) == WithBit(s, 7, 0)
set_sprite_zero_hit(s, b) == WithBit(s, 6, IF b THEN 1 ELSE 0)
snapshot(s) == s
is_in_vblank(s) == Bit(s, 7) = 1

ControlRegister_new == 0
ControlRegister_update(c, data) == data
generate_vblank_nmi(c) == Bit(c, 7) = 1
vram_addr_increment(c) == IF Bit(c, 2) = 0 THEN 1 ELSE 32

(***************************************************************************)
(* AddrRegister (ppu/address.rs).                                          *)
(***************************************************************************)
AddrRegister_new == [value |-> <<0, 0>>, hi_ptr |-> TRUE]

AddrRegister_get(a) == a.value[1] * 256 + a.value[2]

AddrRegister_set(a, data) ==
    [a EXCEPT !.value = <<(data \div 256) % 256, data % 256>>]

AddrRegister_mirror(a) ==
    IF AddrRegister_get(a) > 16383
    THEN AddrRegister_set(a, AddrRegister_get(a) % 16384)
    ELSE a

\* variant: the address is not mirrored down to 14 bits
AddrRegister_update_unmasked(a, data) ==
    LET a1 == IF a.hi_ptr THEN [a EXCEPT !.value[1] = data]
                          ELSE [a EXCEPT !.value[2] = data]
    IN  [a1 EXCEPT !.hi_ptr = ~a.hi_ptr]

AddrRegister_update(a, data) ==
    LET a1 == IF a.hi_ptr THEN [a EXCEPT !.value[1] = data]
                          ELSE [a EXCEPT !.value[2] = data]
        a2 == AddrRegister_mirror(a1)
    IN  [a2 EXCEPT !.hi_ptr = ~a.hi_ptr]

\* variant: the low byte wraps without carrying into the high byte
AddrRegister_increment_nocarry(a, inc) ==
    AddrRegister_mirror([a EXCEPT !.value[2] = (a.value[2] + inc) % 256])

AddrRegister_increment(a, inc) ==
    LET lo == a.value[2]
        lo2 == (lo + inc) % 256
        a1 == [a EXCEPT !.value[2] = lo2]
        a2 == IF lo > lo2 THEN [a1 EXCEPT !.value[1] = (a.value[1] + 1) % 256]
                          ELSE a1
    IN  AddrRegister_mirror(a2)

AddrRegister_reset_latch(a) == [a EXCEPT !.hi_ptr = TRUE]

(***************************************************************************)
(* ScrollRegister (ppu/scroll.rs).                                         *)
(***************************************************************************)
ScrollRegister_new == [scroll_x |-> 0, scroll_y |-> 0, scroll_switch |-> FALSE]

ScrollRegister_write(s, data) ==
    LET s1 == IF ~s.scroll_switch THEN [s EXCEPT !.scroll_x = data]
                                  ELSE [s EXCEPT !.scroll_y = data]
    IN  [s1 EXCEPT !.scroll_switch = ~s.scroll_switch]

reset_scroll_switch(s) == [s EXCEPT !.scroll_switch = FALSE]

(***************************************************************************)
(* NesPPU (ppu/mod.rs).                                                    *)
(***************************************************************************)
NesPPU_new(chr_rom, mirroring) ==
    [ chr_rom           |-> chr_rom,
      mirroring         |-> mirroring,
      vram              |-> Filled(VramSize, 0),
      oam_data          |-> Filled(256, 0),
      palette_table     |-> Filled(32, 0),
      internal_data_buf |-> 0,
      addr              |-> AddrRegister_new,
      ctrl              |-> ControlRegister_new,
      mask              |-> 0,
      oam_addr          |-> 0,
      scroll            |-> ScrollRegister_new,
      status            |-> StatusRegister_new,
      scanline          |-> 0,
      cycles            |-> 0,
      nmi_interrupt     |-> None ]

\* variant: the NMI is latched whatever PPUCTRL holds
NesPPU_enter_vblank_always(p) ==
    [p EXCEPT !.status = set_sprite_zero_hit(set_vblank_status(p.status, TRUE), FALSE),
              !.nmi_interrupt = Some(1)]

\* the `if self.scanline == 241` block of NesPPU::tick
NesPPU_enter_vblank(p) ==
    [p EXCEPT !.status = set_sprite_zero_hit(set_vblank_status(p.status, TRUE), FALSE),
              !.nmi_interrupt = IF generate_vblank_nmi(p.ctrl) THEN Some(1) ELSE @]

\* variant: the wrap leaves a pending NMI latched
NesPPU_wrap_frame_pending(p) ==
    [p EXCEPT !.scanline = 0,
              !.status = reset_vblank_status(set_sprite_zero_hit(p.status, FALSE))]

\* variant: the wrap leaves the VBlank bit alone
NesPPU_wrap_frame_keep(p) ==
    [p EXCEPT !.scanline = 0,
              !.nmi_interrupt = None,
              !.status = set_sprite_zero_hit(p.status, FALSE)]

\* the `if self.scanline >= 262` block of NesPPU::tick
NesPPU_wrap_frame(p) ==
    [p EXCEPT !.scanline = 0,
              !.nmi_interrupt = None,
              !.status = reset_vblank_status(set_sprite_zero_hit(p.status, FALSE))]

\* variant: a scanline ends when the dot counter exceeds 341
NesPPU_tick_gt(p, cycles) ==
    LET c1 == p.cycles + cycles
        at_line_end(p2) ==
            IF p2.scanline >= ScanlinesPerFrame
            THEN [ppu |-> NesPPU_wrap_frame(p2), ret |-> TRUE]
            ELSE [ppu |-> p2, ret |-> FALSE]
        next_line(p1) ==
            at_line_end(IF p1.scanline = VblankScanline THEN NesPPU_enter_vblank(p1) ELSE p1)
    IN  IF c1 > DotsPerScanline
        THEN next_line([p EXCEPT !.cycles = c1 - DotsPerScanline,
                                 !.scanline = p.scanline + 1])
        ELSE [ppu |-> [p EXCEPT !.cycles = c1], ret |-> FALSE]

\* NesPPU::tick(cycles: u8) -> bool : the PPU afterwards and the value returned
NesPPU_tick(p, cycles) ==
    LET c1 == p.cycles + cycles
        at_line_end(p2) ==
            IF p2.scanline >= ScanlinesPerFrame
            THEN [ppu |-> NesPPU_wrap_frame(p2), ret |-> TRUE]
            ELSE [ppu |-> p2, ret |-> FALSE]
        next_line(p1) ==
            at_line_end(IF p1.scanline = VblankScanline THEN NesPPU_enter_vblank(p1) ELSE p1)
    IN  IF c1 >= DotsPerScanline
        THEN next_line([p EXCEPT !.cycles = c1 - DotsPerScanline,
                                 !.scanline = p.scanline + 1])
        ELSE [ppu |-> [p EXCEPT !.cycles = c1], ret |-> FALSE]

\* variant: the status is sampled after the VBlank bit is cleared
NesPPU_read_status_post(p) ==
    [ppu |-> [p EXCEPT !.status = reset_vblank_status(p.status),
                       !.addr = AddrRegister_reset_latch(p.addr),
                       !.scroll = reset_scroll_switch(p.scroll)],
     ret |-> snapshot(reset_vblank_status(p.status))]

\* NesPPU::read_status() -> u8
NesPPU_read_status(p) ==
    [ppu |-> [p EXCEPT !.status = reset_vblank_status(p.status),
                       !.addr = AddrRegister_reset_latch(p.addr),
                       !.scroll = reset_scroll_switch(p.scroll)],
     ret |-> snapshot(p.status)]

\* variant: enabling the NMI during the vertical blank latches one at once
NesPPU_write_to_ctrl_nmi(p, value) ==
    [p EXCEPT !.ctrl = ControlRegister_update(p.ctrl, value),
              !.nmi_interrupt =
                  IF /\ ~generate_vblank_nmi(p.ctrl)
                     /\ generate_vblank_nmi(ControlRegister_update(p.ctrl, value))
                     /\ is_in_vblank(p.status)
                  THEN Some(1) ELSE @]

NesPPU_write_to_ctrl(p, value) == [p EXCEPT !.ctrl = ControlRegister_update(p.ctrl, value)]

NesPPU_write_to_ppu_addr(p, value) == [p EXCEPT !.addr = AddrRegister_update(p.addr, value)]

NesPPU_write_to_scroll(p, value) == [p EXCEPT !.scroll = ScrollRegister_write(p.scroll, value)]

NesPPU_write_to_mask(p, value) == [p EXCEPT !.mask = value]

NesPPU_write_to_oam_addr(p, value) == [p EXCEPT !.oam_addr = value]

NesPPU_write_to_oam_data(p, value) ==
    [p EXCEPT !.oam_data = Store(p.oam_data, p.oam_addr, value),
              !.oam_addr = (p.oam_addr + 1) % 256]

NesPPU_read_oam_data(p) == At(p.oam_data, p.oam_addr)

\* NesPPU::write_oam_dma(data: &[u8; 256]); data is a function on 0..255.
\* The loop's iterations i .. i+n-1, evaluated half by half.
RECURSIVE NesPPU_oam_dma_from(_, _, _, _)
NesPPU_oam_dma_from(p, data, i, n) ==
    IF n = 0 THEN p
    ELSE IF n = 1 THEN NesPPU_write_to_oam_data(p, data[i])
    ELSE LET second_half(h) ==
                 IF h.oam_data.set = h.oam_data.set
                 THEN NesPPU_oam_dma_from(h, data, i + (n \div 2), n - (n \div 2))
                 ELSE h
         IN  second_half(NesPPU_oam_dma_from(p, data, i, n \div 2))

\* variant: the buffer is copied to OAM from index 0, not from oam_addr
NesPPU_write_oam_dma_at0(p, data) ==
    [p EXCEPT !.oam_data =
         NesPPU_oam_dma_from([p EXCEPT !.oam_addr = 0], data, 0, 256).oam_data]

NesPPU_write_oam_dma(p, data) == NesPPU_oam_dma_from(p, data, 0, 256)

\* variant: with horizontal mirroring name table 2 goes to the first bank
NesPPU_mirror_vram_addr_h2(p, addr) ==
    LET mirrored_vram == (addr % 4096) + Bit(addr, 13) * 8192
        vram_index == mirrored_vram - 8192
        name_table == vram_index \div 1024
    IN  CASE p.mirroring = "VERTICAL" /\ name_table \in {2, 3} -> vram_index - 2048
          [] p.mirroring = "HORIZONTAL" /\ name_table = 1 -> vram_index - 1024
          [] p.mirroring = "HORIZONTAL" /\ name_table \in {2, 3} -> vram_index - 2048
          [] OTHER -> vram_index

\* NesPPU::mirror_vram_addr(addr: u16) -> u16
NesPPU_mirror_vram_addr(p, addr) ==
    LET mirrored_vram == (addr % 4096) + Bit(addr, 13) * 8192
        vram_index == mirrored_vram - 8192
        name_table == vram_index \div 1024
    IN  CASE p.mirroring = "VERTICAL" /\ name_table \in {2, 3} -> vram_index - 2048
          [] p.mirroring = "HORIZONTAL" /\ name_table \in {1, 2} -> vram_index - 1024
          [] p.mirroring = "HORIZONTAL" /\ name_table = 3 -> vram_index - 2048
          [] OTHER -> vram_index

NesPPU_increment_vram_addr(p) ==
    [p EXCEPT !.addr = AddrRegister_increment(p.addr, vram_addr_increment(p.ctrl))]

\* NesPPU::read_data() -> u8 : the PPU afterwards, the byte returned, and the
\* panic raised instead ("" when the call returns)
NesPPU_read_data(p) ==
    LET \* addr: self.addr.get(); p1: the PPU after self.increment_vram_addr();
        \* idx: self.mirror_vram_addr(addr), used in the 0x2000..=0x2fff arm
        read(addr, p1, idx) ==
            CASE addr <= 8191 ->
                   IF addr < p.chr_rom.len
                   THEN [ppu |-> [p1 EXCEPT !.internal_data_buf = At(p.chr_rom, addr)],
                         ret |-> p.internal_data_buf, panic |-> ""]
                   ELSE [ppu |-> p1, ret |-> 0, panic |-> "index out of bounds"]
              [] addr >= 8192 /\ addr <= 12287 ->
                   IF idx < p.vram.len
                   THEN [ppu |-> [p1 EXCEPT !.internal_data_buf = At(p.vram, idx)],
                         ret |-> p.internal_data_buf, panic |-> ""]
                   ELSE [ppu |-> p1, ret |-> 0, panic |-> "index out of bounds"]
              [] addr >= 12288 /\ addr <= 16127 ->
                   [ppu |-> p1, ret |-> 0,
                    panic |-> "addr space 0x3000..0x3eff is not expected to be used"]
              [] addr >= 16128 /\ addr <= 16383 ->
                   IF addr - 16128 < p.palette_table.len
                   THEN [ppu |-> p1, ret |-> At(p.palette_table, addr - 16128), panic |-> ""]
                   ELSE [ppu |-> p1, ret |-> 0, panic |-> "index out of bounds"]
              [] OTHER -> [ppu |-> p1, ret |-> 0, panic |-> "unexpected access to mirrored space"]
    IN  read(AddrRegister_get(p.addr), NesPPU_increment_vram_addr(p),
             NesPPU_mirror_vram_addr(p, AddrRegister_get(p.addr)))

\* NesPPU::write_to_data(value: u8) : the PPU afterwards and the panic raised
NesPPU_write_to_data(p, value) ==
    LET write(addr, idx) ==
        CASE addr <= 8191 -> [ppu |-> NesPPU_increment_vram_addr(p), panic |-> ""]
          [] addr >= 8192 /\ addr <= 12287 ->
               IF idx < p.vram.len
               THEN [ppu |-> NesPPU_increment_vram_addr([p EXCEPT !.vram = Store(p.vram, idx, value)]),
                     panic |-> ""]
               ELSE [ppu |-> p, panic |-> "index out of bounds"]
          [] addr >= 12288 /\ addr <= 16127 -> [ppu |-> p, panic |-> "not implemented"]
          [] addr \in {16144, 16148, 16152, 16156} ->
               [ppu |-> NesPPU_increment_vram_addr(
                            [p EXCEPT !.palette_table = Store(p.palette_table, addr - 16 - 16128, value)]),
                panic |-> ""]
          [] addr >= 16128 /\ addr <= 16383 /\ addr \notin {16144, 16148, 16152, 16156} ->
               IF addr - 16128 < p.palette_table.len
               THEN [ppu |-> NesPPU_increment_vram_addr(
                                 [p EXCEPT !.palette_table = Store(p.palette_table, addr - 16128, value)]),
                     panic |-> ""]
               ELSE [ppu |-> p, panic |-> "index out of bounds"]
          [] OTHER -> [ppu |-> p, panic |-> "unexpected access to mirrored space"]
    IN  write(AddrRegister_get(p.addr), NesPPU_mirror_vram_addr(p, AddrRegister_get(p.addr)))

(***************************************************************************)
(* Joypad (joypads.rs).                                                    *)
(***************************************************************************)
Joypad_new == [strobe |-> FALSE, button_index |-> 0, button_status |-> 0]

\* variant: every write restarts the report, whatever bit 0 holds
Joypad_write_restart(j, data) ==
    [j EXCEPT !.strobe = (data % 2 = 1), !.button_index = 0]

\* Joypad::write(data: u8)
Joypad_write(j, data) ==
    LET strobe == (data % 2 = 1)
    IN  [j EXCEPT !.strobe = strobe,
                  !.button_index = IF strobe THEN 0 ELSE @]

\* variant: the buttons are reported from bit 7 down to bit 0
Joypad_read_msb(j) ==
    IF j.button_index > 7 THEN [joypad |-> j, ret |-> 1]
    ELSE [joypad |-> IF ~j.strobe /\ j.button_index <= 7
                     THEN [j EXCEPT !.button_index = @ + 1] ELSE j,
          ret |-> Bit(j.button_status, 7 - j.button_index)]

\* Joypad::read() -> u8 : the joypad afterwards and the value returned
Joypad_read(j) ==
    IF j.button_index > 7 THEN [joypad |-> j, ret |-> 1]
    ELSE [joypad |-> IF ~j.strobe /\ j.button_index <= 7
                     THEN [j EXCEPT !.button_index = @ + 1] ELSE j,
          ret |-> Bit(j.button_status, j.button_index)]

Joypad_set_button_pressed_status(j, button, pressed) ==
    [j EXCEPT !.button_status = WithBit(@, button, IF pressed THEN 1 ELSE 0)]

(***************************************************************************)
(* Bus (bus.rs).                                                           *)
(***************************************************************************)
Bus_new(rom) ==
    [ cpu_vram |-> Filled(2048, 0),
      prg_rom  |-> rom.prg_rom,
      ppu      |-> NesPPU_new(rom.chr_rom, rom.screen_mirroring),
      cycles   |-> 0,
      joypad1  |-> Joypad_new,
      joypad2  |-> Joypad_new ]

\* variant: the callback runs on every tick that ends with the latch pending
Bus_tick_level(b, cycles) ==
    LET nmi_after(r) == IsSome(r.ppu.nmi_interrupt)
        ticked(r) == [bus |-> [b EXCEPT !.cycles = @ + cycles, !.ppu = r.ppu],
                      called |-> nmi_after(r),
                      frame |-> r.ret]
    IN  ticked(NesPPU_tick(b.ppu, (cycles * 3) % 256))

\* variant: the PPU advances one dot per CPU cycle
Bus_tick_x1(b, cycles) ==
    LET nmi_before == IsSome(b.ppu.nmi_interrupt)
        nmi_after(r) == IsSome(r.ppu.nmi_interrupt)
        ticked(r) == [bus |-> [b EXCEPT !.cycles = @ + cycles, !.ppu = r.ppu],
                      called |-> ~nmi_before /\ nmi_after(r),
                      frame |-> r.ret]
    IN  ticked(NesPPU_tick(b.ppu, cycles))

\* Bus::tick(cycles: u8) : the bus afterwards, whether gameloop_callback was
\* invoked, and the value NesPPU::tick returned (which the bus discards).
\* `cycles * 3` is a u8 product: the callers pass at most 85, where it is exact.
Bus_tick(b, cycles) ==
    LET nmi_before == IsSome(b.ppu.nmi_interrupt)
        nmi_after(r) == IsSome(r.ppu.nmi_interrupt)
        ticked(r) == [bus |-> [b EXCEPT !.cycles = @ + cycles, !.ppu = r.ppu],
                      called |-> ~nmi_before /\ nmi_after(r),
                      frame |-> r.ret]
    IN  ticked(NesPPU_tick(b.ppu, (cycles * 3) % 256))

\* variant: the latch is read without being taken
Bus_poll_nmi_status_peek(b) ==
    [bus |-> b, ret |-> b.ppu.nmi_interrupt]

\* Bus::poll_nmi_status() -> Option<u8> : Option::take on the latch
Bus_poll_nmi_status(b) ==
    [bus |-> [b EXCEPT !.ppu.nmi_interrupt = None], ret |-> b.ppu.nmi_interrupt]

\* Bus::read_prg_rom(addr) : the byte, or the panic of the Vec index
Bus_read_prg_rom(b, addr) ==
    LET a0 == addr - 32768
        a1 == IF b.prg_rom.len = 16384 /\ a0 >= 16384 THEN a0 % 16384 ELSE a0
    IN  IF a1 < b.prg_rom.len
        THEN [bus |-> b, ret |-> At(b.prg_rom, a1), panic |-> ""]
        ELSE [bus |-> b, ret |-> 0, panic |-> "index out of bounds"]

\* variant: a write-only register reads as 0
Bus_read_ppu_register_zero(b, addr) ==
    CASE addr \in {8192, 8193, 8195, 8197, 8198} ->
           [bus |-> b, ret |-> 0, panic |-> ""]
      [] addr = 8194 ->
           LET read(r) == [bus |-> [b EXCEPT !.ppu = r.ppu], ret |-> r.ret, panic |-> ""]
           IN  read(NesPPU_read_status(b.ppu))
      [] addr = 8196 -> [bus |-> b, ret |-> NesPPU_read_oam_data(b.ppu), panic |-> ""]
      [] addr = 8199 ->
           LET read(r) == [bus |-> [b EXCEPT !.ppu = r.ppu], ret |-> r.ret, panic |-> r.panic]
           IN  read(NesPPU_read_data(b.ppu))

\* the arms 0x2000..=0x2007 of Bus::mem_read
Bus_read_ppu_register(b, addr) ==
    CASE addr \in {8192, 8193, 8195, 8197, 8198} ->
           [bus |-> b, ret |-> 0, panic |-> "Attempt to read from write-only PPU address"]
      [] addr = 8194 ->
           LET read(r) == [bus |-> [b EXCEPT !.ppu = r.ppu], ret |-> r.ret, panic |-> ""]
           IN  read(NesPPU_read_status(b.ppu))
      [] addr = 8196 -> [bus |-> b, ret |-> NesPPU_read_oam_data(b.ppu), panic |-> ""]
      [] addr = 8199 ->
           LET read(r) == [bus |-> [b EXCEPT !.ppu = r.ppu], ret |-> r.ret, panic |-> r.panic]
           IN  read(NesPPU_read_data(b.ppu))

\* variant: RAM repeats every 1 KiB
Bus_mem_read_1k(b, addr) ==
    CASE addr <= 8191 -> [bus |-> b, ret |-> At(b.cpu_vram, addr % 1024), panic |-> ""]
      [] addr >= 8192 /\ addr <= 8199 -> Bus_read_ppu_register(b, addr)
      [] addr >= 8200 /\ addr <= 16383 -> Bus_read_ppu_register(b, 8192 + (addr % 8))
      [] addr = 16404 ->
           [bus |-> b, ret |-> 0, panic |-> "Attempt to read from write-only PPU address"]
      [] addr >= 16384 /\ addr <= 16405 /\ addr # 16404 -> [bus |-> b, ret |-> 0, panic |-> ""]
      [] addr = 16406 ->
           LET r == Joypad_read(b.joypad1)
           IN  [bus |-> [b EXCEPT !.joypad1 = r.joypad], ret |-> r.ret, panic |-> ""]
      [] addr = 16407 ->
           LET r == Joypad_read(b.joypad2)
           IN  [bus |-> [b EXCEPT !.joypad2 = r.joypad], ret |-> r.ret, panic |-> ""]
      [] addr >= 32768 -> Bus_read_prg_rom(b, addr)
      [] OTHER -> [bus |-> b, ret |-> 0, panic |-> ""]

\* <Bus as Mem>::mem_read(addr: u16) -> u8
Bus_mem_read(b, addr) ==
    CASE addr <= 8191 -> [bus |-> b, ret |-> At(b.cpu_vram, addr % 2048), panic |-> ""]
      [] addr >= 8192 /\ addr <= 8199 -> Bus_read_ppu_register(b, addr)
      [] addr >= 8200 /\ addr <= 16383 -> Bus_read_ppu_register(b, 8192 + (addr % 8))
      [] addr = 16404 ->
           [bus |-> b, ret |-> 0, panic |-> "Attempt to read from write-only PPU address"]
      [] addr >= 16384 /\ addr <= 16405 /\ addr # 16404 -> [bus |-> b, ret |-> 0, panic |-> ""]
      [] addr = 16406 ->
           LET r == Joypad_read(b.joypad1)
           IN  [bus |-> [b EXCEPT !.joypad1 = r.joypad], ret |-> r.ret, panic |-> ""]
      [] addr = 16407 ->
           LET r == Joypad_read(b.joypad2)
           IN  [bus |-> [b EXCEPT !.joypad2 = r.joypad], ret |-> r.ret, panic |-> ""]
      [] addr >= 32768 -> Bus_read_prg_rom(b, addr)
      [] OTHER -> [bus |-> b, ret |-> 0, panic |-> ""]

\* the loop `for i in 0..256u16 { buffer[i] = self.mem_read(hi + i) }` of the
\* 0x4014 arm: the bus afterwards, the buffer read so far, and the panic
\* raised.  The iterations i .. i+n-1, evaluated half by half.
RECURSIVE Bus_dma_read(_, _, _, _, _)
Bus_dma_read(b, hi, i, n, buffer) ==
    IF n = 0 THEN [bus |-> b, buffer |-> buffer, panic |-> ""]
    ELSE IF n = 1
    THEN LET read(r) ==
                 IF r.panic # "" THEN [bus |-> r.bus, buffer |-> buffer, panic |-> r.panic]
                 ELSE [bus |-> r.bus, buffer |-> [buffer EXCEPT ![i] = r.ret], panic |-> ""]
         IN  read(Bus_mem_read(b, hi + i))
    ELSE LET second_half(h) ==
                 IF h.panic # "" THEN h
                 ELSE Bus_dma_read(h.bus, hi, i + (n \div 2), n - (n \div 2), h.buffer)
         IN  second_half(Bus_dma_read(b, hi, i, n \div 2, buffer))

\* the arms 0x2000..=0x2007 of Bus::mem_write
Bus_write_ppu_register(b, addr, data) ==
    CASE addr = 8192 -> [bus |-> [b EXCEPT !.ppu = NesPPU_write_to_ctrl(b.ppu, data)], panic |-> ""]
      [] addr = 8193 -> [bus |-> [b EXCEPT !.ppu = NesPPU_write_to_mask(b.ppu, data)], panic |-> ""]
      [] addr = 8194 -> [bus |-> b, panic |-> "attempt to write to PPU status register"]
      [] addr = 8195 -> [bus |-> [b EXCEPT !.ppu = NesPPU_write_to_oam_addr(b.ppu, data)], panic |-> ""]
      [] addr = 8196 -> [bus |-> [b EXCEPT !.ppu = NesPPU_write_to_oam_data(b.ppu, data)], panic |-> ""]
      [] addr = 8197 -> [bus |-> [b EXCEPT !.ppu = NesPPU_write_to_scroll(b.ppu, data)], panic |-> ""]
      [] addr = 8198 -> [bus |-> [b EXCEPT !.ppu = NesPPU_write_to_ppu_addr(b.ppu, data)], panic |-> ""]
      [] addr = 8199 ->
           LET written(r) == [bus |-> [b EXCEPT !.ppu = r.ppu], panic |-> r.panic]
           IN  written(NesPPU_write_to_data(b.ppu, data))

\* <Bus as Mem>::mem_write(addr: u16, data: u8)
Bus_mem_write(b, addr, data) ==
    CASE addr <= 8191 ->
           [bus |-> [b EXCEPT !.cpu_vram = Store(b.cpu_vram, addr % 2048, data)], panic |-> ""]
      [] addr >= 8192 /\ addr <= 8199 -> Bus_write_ppu_register(b, addr, data)
      [] addr >= 8200 /\ addr <= 16383 -> Bus_write_ppu_register(b, 8192 + (addr % 8), data)
      [] addr = 16404 ->
           LET copied(r) ==
                   IF r.panic # "" THEN [bus |-> r.bus, panic |-> r.panic]
                   ELSE [bus |-> [r.bus EXCEPT !.ppu = NesPPU_write_oam_dma(r.bus.ppu, r.buffer)],
                         panic |-> ""]
           IN  copied(Bus_dma_read(b, data * 256, 0, 256, [i \in 0..255 |-> 0]))
      [] addr = 16406 ->
           [bus |-> [b EXCEPT !.joypad1 = Joypad_write(b.joypad1, data),
                              !.joypad2 = Joypad_write(b.joypad2, data)],
            panic |-> ""]
      [] OTHER -> [bus |-> b, panic |-> ""]

\* Mem::mem_read_u16(pos) : little endian, the low byte read first.  The
\* high byte is read at pos + 1, a u16 addition: at pos = $FFFF it panics
\* in a build with overflow checks and wraps to $0000 in one without
Bus_mem_read_u16(b, pos, overflow_checks) ==
    LET from_le_bytes(lo, hi) ==
            [bus |-> hi.bus, ret |-> hi.ret * 256 + lo.ret, panic |-> hi.panic]
        with_lo(lo) ==
            IF lo.panic # "" THEN [bus |-> lo.bus, ret |-> 0, panic |-> lo.panic]
            ELSE IF pos = 65535 /\ overflow_checks
            THEN [bus |-> lo.bus, ret |-> 0, panic |-> "attempt to add with overflow"]
            ELSE from_le_bytes(lo, Bus_mem_read(lo.bus, (pos + 1) % 65536))
    IN  with_lo(Bus_mem_read(b, pos))

(***************************************************************************)
(* The machine: the bus together with what its callers and the host        *)
(* observe of it.  The history fields are updated where the code runs      *)
(* NesPPU::tick and the frame callback.                                    *)
(***************************************************************************)
Machine(b) ==
    [bus |-> b, callbacks |-> 0, dots |-> 0, frames |-> 0, cbFrame |-> 0,
     enAt241 |-> FALSE, statusRead |-> FALSE]

\* the tick moved the PPU from another scanline into scanline 241
Entered241(p, q) == p.scanline # VblankScanline /\ q.scanline = VblankScanline

\* history after one NesPPU::tick(d) that took the PPU from p to q, returned
\* wrapped, and was followed by `called` invocations of the frame callback
Observe(m, b, p, q, d, wrapped, called) ==
    [bus        |-> b,
     callbacks  |-> m.callbacks + called,
     dots       |-> m.dots + d,
     frames     |-> m.frames + (IF wrapped THEN 1 ELSE 0),
     cbFrame    |-> (IF wrapped THEN 0 ELSE m.cbFrame) + called,
     enAt241    |-> IF wrapped THEN FALSE
                    ELSE IF Entered241(p, q) THEN generate_vblank_nmi(p.ctrl)
                    ELSE m.enAt241,
     statusRead |-> IF wrapped \/ Entered241(p, q) THEN FALSE ELSE m.statusRead]

\* a direct call of NesPPU::tick(d) on the bus's PPU (as the unit tests do)
M_ppu_tick(m, d) ==
    LET ticked(r) == Observe(m, [m.bus EXCEPT !.ppu = r.ppu], m.bus.ppu, r.ppu, d, r.ret, 0)
    IN  ticked(NesPPU_tick(m.bus.ppu, d))

\* Bus::tick(n), the frame callback included
M_bus_tick(m, n) ==
    LET ticked(r) == Observe(m, r.bus, m.bus.ppu, r.bus.ppu, (n * 3) % 256, r.frame,
                             IF r.called THEN 1 ELSE 0)
    IN  ticked(Bus_tick(m.bus, n))

\* a read of PPU STATUS that left the bus as b
M_status_read(m, b) ==
    [m EXCEPT !.bus = b, !.statusRead = @ \/ m.bus.ppu.scanline >= VblankScanline]

(***************************************************************************)
(* CPU (cpu.rs): the run loop, the NMI service and the instructions of     *)
(* the opcode table (opcodes.rs).  The bytes the loop fetches at the       *)
(* program counter are inputs of the steps.                                *)
(***************************************************************************)
\* CPU::new.  overflow_checks is the build profile: a u8 addition or subtraction that
\* overflows panics in a build with overflow checks (cargo's dev profile)
\* and wraps in one without (the release profile)
CPU_new ==
    [register_a |-> 0, register_x |-> 0, register_y |-> 0,
     stack_pointer |-> 253, status |-> 36, program_counter |-> 0, at |-> "poll",
     overflow_checks |-> TRUE, ticks |-> <<>>]

\* history: what the CPU and its RAM were at each self.bus.tick of the
\* instruction being executed, kept in cpu.ticks
AtTick(c, m) ==
    [c EXCEPT !.ticks = Append(@, [register_a |-> c.register_a,
                                   register_x |-> c.register_x,
                                   status |-> c.status,
                                   program_counter |-> c.program_counter,
                                   cpu_vram |-> m.bus.cpu_vram])]

\* CPU::reset(): the registers afterwards, the bus after the two reads of
\* the reset vector, and the panic raised by them
CPU_reset(c, b) ==
    LET loaded(v) ==
            [cpu |-> [c EXCEPT !.register_a = 0, !.register_x = 0, !.status = 36,
                               !.stack_pointer = 253,
                               !.program_counter = IF v.panic = "" THEN v.ret ELSE @],
             bus |-> v.bus, panic |-> v.panic]
    IN  loaded(Bus_mem_read_u16(b, 65532, c.overflow_checks))

\* CPU::load(program): the bus after the program bytes were written from
\* $0600 on and the word $0600 was written at $FFFC (mem_write_u16: low
\* byte, then high byte), and the panic raised by one of the writes
CPU_load(b, program) ==
    LET RECURSIVE stored(_, _)
        stored(w, i) ==
            IF w.panic # "" \/ i > Len(program) THEN w
            ELSE stored(Bus_mem_write(w.bus, 1536 + i - 1, program[i]), i + 1)
        then(w, addr, data) ==
            IF w.panic # "" THEN w ELSE Bus_mem_write(w.bus, addr, data)
    IN  then(then(stored([bus |-> b, panic |-> ""], 1), 65532, 0), 65533, 6)

\* opcodes::CPU_OPS_CODES
CPU_OPS_CODES ==
    { [code |-> 0,   mnemonic |-> "BRK", len |-> 1, cycles |-> 7, mode |-> "NoneAddressing"],
      [code |-> 170, mnemonic |-> "TAX", len |-> 1, cycles |-> 2, mode |-> "NoneAddressing"],
      [code |-> 232, mnemonic |-> "INX", len |-> 1, cycles |-> 2, mode |-> "NoneAddressing"],
      [code |-> 169, mnemonic |-> "LDA", len |-> 2, cycles |-> 2, mode |-> "Immediate"],
      [code |-> 165, mnemonic |-> "LDA", len |-> 2, cycles |-> 3, mode |-> "ZeroPage"],
      [code |-> 181, mnemonic |-> "LDA", len |-> 2, cycles |-> 4, mode |-> "ZeroPage_X"],
      [code |-> 173, mnemonic |-> "LDA", len |-> 3, cycles |-> 4, mode |-> "Absolute"],
      [code |-> 189, mnemonic |-> "LDA", len |-> 3, cycles |-> 4, mode |-> "Absolute_X"],
      [code |-> 185, mnemonic |-> "LDA", len |-> 3, cycles |-> 4, mode |-> "Absolute_Y"],
      [code |-> 161, mnemonic |-> "LDA", len |-> 2, cycles |-> 6, mode |-> "Indirect_X"],
      [code |-> 177, mnemonic |-> "LDA", len |-> 2, cycles |-> 5, mode |-> "Indirect_Y"],
      [code |-> 133, mnemonic |-> "STA", len |-> 2, cycles |-> 3, mode |-> "ZeroPage"],
      [code |-> 149, mnemonic |-> "STA", len |-> 2, cycles |-> 4, mode |-> "ZeroPage_X"],
      [code |-> 141, mnemonic |-> "STA", len |-> 3, cycles |-> 4, mode |-> "Absolute"],
      [code |-> 157, mnemonic |-> "STA", len |-> 3, cycles |-> 5, mode |-> "Absolute_X"],
      [code |-> 153, mnemonic |-> "STA", len |-> 3, cycles |-> 5, mode |-> "Absolute_Y"],
      [code |-> 129, mnemonic |-> "STA", len |-> 2, cycles |-> 6, mode |-> "Indirect_X"],
      [code |-> 145, mnemonic |-> "STA", len |-> 2, cycles |-> 6, mode |-> "Indirect_Y"] }

\* variant: the flags are set and never cleared
CPU_update_zero_and_negative_flags_sticky(c, result) ==
    LET s1 == WithBit(c.status, 1, IF result = 0 THEN 1 ELSE Bit(c.status, 1))
    IN  [c EXCEPT !.status = WithBit(s1, 7, IF result >= 128 THEN 1 ELSE Bit(c.status, 7))]

CPU_update_zero_and_negative_flags(c, result) ==
    LET s1 == WithBit(c.status, 1, IF result = 0 THEN 1 ELSE 0)
    IN  [c EXCEPT !.status = WithBit(s1, 7, Bit(result, 7))]

\* what a step of the CPU leaves: the registers, the machine, the panic
\* raised ("" if none) and the program counter it loaded (-1 if none)
Outcome(c, m, panic, pc) == [cpu |-> c, m |-> m, panic |-> panic, pc |-> pc]

\* a push as CPU::pha, php and interrupt write it, on s = the registers,
\* the bus and the panic so far:
\*   self.mem_write(0x0100 + self.stack_pointer as u16, data);
\*   self.stack_pointer -= 1;
CPU_push(s, data) ==
    IF s.panic # "" THEN s
    ELSE LET written(w) ==
                 IF w.panic # ""
                 THEN [s EXCEPT !.bus = w.bus, !.panic = w.panic]
                 ELSE IF s.cpu.stack_pointer = 0 /\ s.cpu.overflow_checks
                      THEN [s EXCEPT !.bus = w.bus,
                                     !.panic = "attempt to subtract with overflow"]
                      ELSE [s EXCEPT !.bus = w.bus,
                                     !.cpu.stack_pointer = (@ + 255) % 256]
         IN  written(Bus_mem_write(s.bus, 256 + s.cpu.stack_pointer, data))

\* variant: the byte is read before the stack pointer is incremented
CPU_pull_stale(s) ==
    IF s.panic # "" THEN s
    ELSE IF s.cpu.stack_pointer = 255 /\ s.cpu.overflow_checks
         THEN [s EXCEPT !.panic = "attempt to add with overflow"]
         ELSE LET read(r) ==
                      [s EXCEPT !.cpu.stack_pointer = (@ + 1) % 256,
                                !.bus = r.bus, !.panic = r.panic, !.ret = r.ret]
              IN  read(Bus_mem_read(s.bus, 256 + s.cpu.stack_pointer))

\* a pull as CPU::pla and plp write it; ret is the byte read:
\*   self.stack_pointer += 1;
\*   self.mem_read(0x0100 + self.stack_pointer as u16)
CPU_pull(s) ==
    IF s.panic # "" THEN s
    ELSE IF s.cpu.stack_pointer = 255 /\ s.cpu.overflow_checks
         THEN [s EXCEPT !.panic = "attempt to add with overflow"]
         ELSE LET read(r) ==
                      [s EXCEPT !.cpu.stack_pointer = (@ + 1) % 256,
                                !.bus = r.bus, !.panic = r.panic, !.ret = r.ret]
              IN  read(Bus_mem_read(s.bus, 256 + ((s.cpu.stack_pointer + 1) % 256)))

\* the registers, the bus, no panic and no byte read: where a handler starts
Entry(c, b) == [cpu |-> c, bus |-> b, panic |-> "", ret |-> 0]

\* CPU::interrupt(interrupt::NMI): the three pushes (the program counter,
\* high byte first, then the flags), the I flag, the two cycles, then the
\* program counter is loaded from the vector.  A panic in a push leaves the
\* rest undone.
CPU_interrupt(c, m) ==
    LET hi == (c.program_counter \div 256) % 256
        lo == c.program_counter % 256
        flag == WithBit(WithBit(c.status, 4, 0), 5, 1)
        vectored(c1, m1, v) ==
            Outcome(IF v.panic = "" THEN [c1 EXCEPT !.program_counter = v.ret] ELSE c1,
                    [m1 EXCEPT !.bus = v.bus], v.panic, IF v.panic = "" THEN v.ret ELSE -1)
        ticked(c1, m1) == vectored(c1, m1, Bus_mem_read_u16(m1.bus, 65530, c1.overflow_checks))
        pushed(s) ==
            IF s.panic # ""
            THEN Outcome(s.cpu, [m EXCEPT !.bus = s.bus], s.panic, -1)
            ELSE ticked([s.cpu EXCEPT !.status = WithBit(@, 2, 1)],
                        M_bus_tick([m EXCEPT !.bus = s.bus], NmiCpuCycles))
    IN  pushed(CPU_push(CPU_push(CPU_push(Entry(c, m.bus), hi), lo), flag))

\* the top of the loop of CPU::run_with_callback: poll the NMI latch and
\* service it; the per-step callback of CPU::run is empty
CPU_poll(c, m) ==
    LET r == Bus_poll_nmi_status(m.bus)
        m1 == [m EXCEPT !.bus = r.bus]
    IN  IF IsSome(r.ret)
        THEN [CPU_interrupt(c, m1) EXCEPT !.cpu.at = "fetch"]
        ELSE Outcome([c EXCEPT !.at = "fetch"], m1, "", -1)

\* the address is PPU STATUS or one of its mirrors
IsStatusAddr(addr) == addr >= 8192 /\ addr <= 16383 /\ addr % 8 = 2

\* CPU::lda: addr and page_cross are what get_operand_address returned; in
\* Immediate mode addr is the program counter, and the byte is read there
\* as in every other mode
CPU_lda(c, m, addr, page_cross) ==
    LET updated(r) == CPU_update_zero_and_negative_flags([c EXCEPT !.register_a = r.ret], r.ret)
        loaded(r, m0) ==
            IF r.panic # "" THEN Outcome(c, m0, r.panic, -1)
            ELSE IF page_cross
                 THEN Outcome(AtTick(updated(r), m0), M_bus_tick(m0, 1), "", -1)
                 ELSE Outcome(updated(r), m0, "", -1)
        read(r) ==
            loaded(r, IF IsStatusAddr(addr) /\ r.panic = ""
                      THEN M_status_read(m, r.bus)
                      ELSE [m EXCEPT !.bus = r.bus])
    IN  read(Bus_mem_read(m.bus, addr))

\* CPU::sta
CPU_sta(c, m, addr) ==
    LET written(w) == Outcome(c, [m EXCEPT !.bus = w.bus], w.panic, -1)
    IN  written(Bus_mem_write(m.bus, addr, c.register_a))

\* CPU::tax
CPU_tax(c, m) ==
    Outcome(CPU_update_zero_and_negative_flags([c EXCEPT !.register_x = c.register_a],
                                               c.register_a), m, "", -1)

\* CPU::inx
CPU_inx(c, m) ==
    LET x == IF c.register_x = 255 THEN 0 ELSE c.register_x + 1
    IN  Outcome(CPU_update_zero_and_negative_flags([c EXCEPT !.register_x = x], x), m, "", -1)

\* variant: BRK returns from run without setting the B flag
CPU_execute_quiet(c, m, op, addr, page_cross) ==
    LET executed(o) ==
            IF o.panic # "" THEN o
            ELSE Outcome([AtTick(o.cpu, o.m) EXCEPT !.at = "poll"],
                         M_bus_tick(o.m, op.cycles), "", -1)
        c0 == [c EXCEPT !.ticks = <<>>]
    IN  IF op.code = 0
        THEN Outcome([c0 EXCEPT !.at = "returned"], m, "", -1)
        ELSE executed(CASE op.mnemonic = "LDA" -> CPU_lda(c0, m, addr, page_cross)
                        [] op.mnemonic = "STA" -> CPU_sta(c0, m, addr)
                        [] op.mnemonic = "TAX" -> CPU_tax(c0, m)
                        [] op.mnemonic = "INX" -> CPU_inx(c0, m)
                        [] OTHER -> Outcome(c0, m, "", -1))

\* the body of the loop after the poll: dispatch on the fetched opcode, then
\* self.bus.tick(opcode.cycles).  BRK returns from run before the tick.
CPU_execute(c, m, op, addr, page_cross) ==
    LET executed(o) ==
            IF o.panic # "" THEN o
            ELSE Outcome([AtTick(o.cpu, o.m) EXCEPT !.at = "poll"],
                         M_bus_tick(o.m, op.cycles), "", -1)
        c0 == [c EXCEPT !.ticks = <<>>]
    IN  IF op.code = 0
        THEN Outcome([c0 EXCEPT !.status = WithBit(c.status, 4, 1), !.at = "returned"], m, "", -1)
        ELSE executed(CASE op.mnemonic = "LDA" -> CPU_lda(c0, m, addr, page_cross)
                        [] op.mnemonic = "STA" -> CPU_sta(c0, m, addr)
                        [] op.mnemonic = "TAX" -> CPU_tax(c0, m)
                        [] op.mnemonic = "INX" -> CPU_inx(c0, m)
                        [] OTHER -> Outcome(c0, m, "", -1))

\* page_cross(addr1, addr2)
page_cross(addr1, addr2) == (addr1 \div 256) # (addr2 \div 256)

\* CPU::get_operand_address(mode) with the program counter at pc: the bus
\* after the reads made, the address, the page-cross flag and the panic
CPU_get_operand_address(c, b, mode, pc) ==
    LET result(r, addr, cross) ==
            [bus |-> r.bus, addr |-> addr, page_cross |-> cross, panic |-> r.panic]
        from_le_bytes(lo, hi) ==
            [bus |-> hi.bus, ret |-> hi.ret * 256 + lo.ret, panic |-> hi.panic]
        hi_after(lo, ptr) ==
            IF lo.panic # "" THEN lo
            ELSE from_le_bytes(lo, Bus_mem_read(lo.bus, (ptr + 1) % 256))
        deref(base, ptr) ==
            IF base.panic # "" THEN base
            ELSE hi_after(Bus_mem_read(base.bus, ptr), ptr)
        zero_page(pos, i) == result(pos, (pos.ret + i) % 256, FALSE)
        direct(base) == result(base, base.ret, FALSE)
        absolute(base, i) ==
            result(base, (base.ret + i) % 65536,
                   page_cross(base.ret, (base.ret + i) % 65536))
        indirect_x(base) ==
            LET target(w) == result(w, w.ret, FALSE)
            IN  target(deref(base, (base.ret + c.register_x) % 256))
        indirect_y(base) ==
            LET target(w) ==
                    result(w, (w.ret + c.register_y) % 65536,
                           page_cross((w.ret + c.register_y) % 65536, w.ret))
            IN  target(deref(base, base.ret))
    IN  CASE mode = "Immediate" ->
               [bus |-> b, addr |-> pc, page_cross |-> FALSE, panic |-> ""]
          [] mode = "ZeroPage" -> zero_page(Bus_mem_read(b, pc), 0)
          [] mode = "Absolute" -> direct(Bus_mem_read_u16(b, pc, c.overflow_checks))
          [] mode = "ZeroPage_X" -> zero_page(Bus_mem_read(b, pc), c.register_x)
          [] mode = "ZeroPage_Y" -> zero_page(Bus_mem_read(b, pc), c.register_y)
          [] mode = "Absolute_X" -> absolute(Bus_mem_read_u16(b, pc, c.overflow_checks), c.register_x)
          [] mode = "Absolute_Y" -> absolute(Bus_mem_read_u16(b, pc, c.overflow_checks), c.register_y)
          [] mode = "Indirect_X" -> indirect_x(Bus_mem_read(b, pc))
          [] mode = "Indirect_Y" -> indirect_y(Bus_mem_read(b, pc))
          [] OTHER -> [bus |-> b, addr |-> 0, page_cross |-> FALSE,
                       panic |-> "mode is not supported"]

\* variant: the program counter is advanced by the opcode's length after
\* the fetch has already advanced it by one
CPU_step_len(c, m) ==
    LET pc == c.program_counter
        program_counter_state == (pc + 1) % 65536
        c1 == [c EXCEPT !.program_counter = program_counter_state]
        advance(o, op) ==
            IF o.panic = "" /\ o.cpu.at # "returned"
                  /\ program_counter_state = o.cpu.program_counter
            THEN IF program_counter_state + op.len > 65535 /\ c.overflow_checks
                 THEN [o EXCEPT !.panic = "attempt to add with overflow", !.cpu.at = c.at]
                 ELSE [o EXCEPT !.cpu.program_counter = (@ + op.len) % 65536]
            ELSE o
        execute(op, g, m1) ==
            IF g.panic # "" THEN Outcome(c1, [m1 EXCEPT !.bus = g.bus], g.panic, -1)
            ELSE advance(CPU_execute(c1, [m1 EXCEPT !.bus = g.bus], op, g.addr, g.page_cross),
                         op)
        operand(op, m1) ==
            execute(op, IF op.mnemonic \in {"LDA", "STA"}
                        THEN CPU_get_operand_address(c1, m1.bus, op.mode,
                                                     program_counter_state)
                        ELSE [bus |-> m1.bus, addr |-> 0, page_cross |-> FALSE, panic |-> ""],
                    m1)
        decode(f, ops, m1) ==
            IF f.panic # "" THEN Outcome(c, m1, f.panic, -1)
            ELSE IF pc = 65535 /\ c.overflow_checks
            THEN Outcome(c, m1, "attempt to add with overflow", -1)
            ELSE IF ops = {}
            THEN Outcome(c1, m1, "OpCode is not recognized", -1)
            ELSE operand(CHOOSE op \in ops : TRUE, m1)
        fetch(f) == decode(f, {op \in CPU_OPS_CODES : op.code = f.ret},
                           IF IsStatusAddr(pc) /\ f.panic = ""
                           THEN M_status_read(m, f.bus) ELSE [m EXCEPT !.bus = f.bus])
    IN  fetch(Bus_mem_read(m.bus, pc))

\* the loop of CPU::run_with_callback from the per-step callback to the
\* end of the pass: fetch the opcode at the program counter and advance it,
\* look the opcode up, run the instruction and the tick, and advance the
\* program counter past the operands if the instruction left it alone.
\* Both advances are plain u16 additions: past $FFFF they panic in a build
\* with overflow checks and wrap in one without.
CPU_step(c, m) ==
    LET pc == c.program_counter
        program_counter_state == (pc + 1) % 65536
        c1 == [c EXCEPT !.program_counter = program_counter_state]
        advance(o, op) ==
            IF o.panic = "" /\ o.cpu.at # "returned"
                  /\ program_counter_state = o.cpu.program_counter
            THEN IF program_counter_state + (op.len - 1) > 65535 /\ c.overflow_checks
                 THEN [o EXCEPT !.panic = "attempt to add with overflow", !.cpu.at = c.at]
                 ELSE [o EXCEPT !.cpu.program_counter = (@ + (op.len - 1)) % 65536]
            ELSE o
        execute(op, g, m1) ==
            IF g.panic # "" THEN Outcome(c1, [m1 EXCEPT !.bus = g.bus], g.panic, -1)
            ELSE advance(CPU_execute(c1, [m1 EXCEPT !.bus = g.bus], op, g.addr, g.page_cross),
                         op)
        operand(op, m1) ==
            execute(op, IF op.mnemonic \in {"LDA", "STA"}
                        THEN CPU_get_operand_address(c1, m1.bus, op.mode,
                                                     program_counter_state)
                        ELSE [bus |-> m1.bus, addr |-> 0, page_cross |-> FALSE, panic |-> ""],
                    m1)
        decode(f, ops, m1) ==
            IF f.panic # "" THEN Outcome(c, m1, f.panic, -1)
            ELSE IF pc = 65535 /\ c.overflow_checks
            THEN Outcome(c, m1, "attempt to add with overflow", -1)
            ELSE IF ops = {}
            THEN Outcome(c1, m1, "OpCode is not recognized", -1)
            ELSE operand(CHOOSE op \in ops : TRUE, m1)
        fetch(f) == decode(f, {op \in CPU_OPS_CODES : op.code = f.ret},
                           IF IsStatusAddr(pc) /\ f.panic = ""
                           THEN M_status_read(m, f.bus) ELSE [m EXCEPT !.bus = f.bus])
    IN  fetch(Bus_mem_read(m.bus, pc))

(***************************************************************************)
(* Inputs.                                                                 *)
(***************************************************************************)
\* the cartridge of test_rom(): header bytes 6 and 7 are $31 and $00, so the
\* mapper is 3 and the mirroring VERTICAL; two PRG pages of 1, one CHR page
\* of 2
TestRom ==
    [prg_rom |-> Filled(2 * PRG_ROM_PAGE_SIZE, 1), chr_rom |-> Filled(CHR_ROM_PAGE_SIZE, 2),
     mapper |-> 3, screen_mirroring |-> "VERTICAL"]
\* other cartridges handed to Bus::new: the fields of Rom are public. CHR
\* bytes that tell cells 5, 6 and 8191 apart, and either mirroring
ChrImage == Store(Store(Store(Filled(CHR_ROM_PAGE_SIZE, 2), 5, 17), 6, 34), 8191, 51)
Cartridge(mirroring) ==
    [prg_rom |-> Filled(2 * PRG_ROM_PAGE_SIZE, 1), chr_rom |-> ChrImage, mapper |-> 0,
     screen_mirroring |-> mirroring]

\* arguments of direct NesPPU::tick calls (a u8)
TickDots == {0, 1, 86, 255}
\* arguments of Bus::tick: the CPU's cycle counts, and the largest u8 whose
\* triple is a u8
TickCycles == {1, 2, 7, 85}
\* bytes written to PPUCTRL: NMI-enable (bit 7) and the increment (bit 2)
CtrlBytes == {0, 128}
\* CPU addresses of PPUCTRL and PPUSTATUS, and one mirror of each
CtrlAddrs == {8192, 16376}
StatusAddrs == {8194, 8202}
\* the opcodes of the programs run for a frame: LDA abs and STA abs
RunCodes == {173, 141}
\* the word that follows the opcode: a RAM cell (it holds $00), PPUCTRL,
\* PPUSTATUS and the cartridge's byte $80 for LDA abs; PPUCTRL and PPUSTATUS
\* for STA abs
Operands(code) ==
    IF code = 173 THEN {16, 8192, 8194, 65521} ELSE {8192, 8194}
\* a cartridge for these runs: the reset vector is $8000 and the NMI vector
\* $E000, and $FFF0 and $FFF1 hold the bytes $00 and $80
CpuRom ==
    [Cartridge("HORIZONTAL") EXCEPT
        !.prg_rom = Store(Store(Store(Store(Store(Store(@, 32762, 0), 32763, 224),
                                            32764, 0), 32765, 128), 32752, 0), 32753, 128)]

(***************************************************************************)
(* State after construction, and the steps.                                *)
(***************************************************************************)
Here ==
    [bus |-> bus, callbacks |-> callbacks, dots |-> dots, frames |-> frames,
     cbFrame |-> cbFrame, enAt241 |-> enAt241, statusRead |-> statusRead]

Commit(m) ==
    /\ bus' = m.bus
    /\ callbacks' = m.callbacks
    /\ dots' = m.dots
    /\ frames' = m.frames
    /\ cbFrame' = m.cbFrame
    /\ enAt241' = m.enAt241
    /\ statusRead' = m.statusRead

\* last: the operation, its argument, the value it returned, the PPU address
\* it used, and the operation before it
NoOp == [op |-> "new", arg |-> 0, ret |-> 0, addr |-> 0, prev |-> "new"]
Op(name, arg, ret, addr) ==
    [op |-> name, arg |-> arg, ret |-> ret, addr |-> addr, prev |-> last.op]

InitRom(rom) ==
    /\ bus = Bus_new(rom)
    /\ cpu = CPU_new
    /\ fault = ""
    /\ callbacks = 0 /\ dots = 0 /\ frames = 0 /\ cbFrame = 0
    /\ enAt241 = FALSE /\ statusRead = FALSE
    /\ nmis = 0
    /\ last = NoOp
    /\ nops = 0

Init == InitRom(TestRom)

Running == fault = "" /\ frames < MaxFrames
CpuRunning == fault = "" /\ frames < MaxCpuFrames

---------------------------------------------------------------------------
\* the PPU driven directly
PpuTick(d) ==
    /\ Running
    /\ Commit(M_ppu_tick(Here, d))
    /\ UNCHANGED <<cpu, fault, nmis, last, nops>>

PpuWriteCtrl(v) ==
    /\ Running
    /\ bus' = [bus EXCEPT !.ppu = NesPPU_write_to_ctrl(bus.ppu, v)]
    /\ UNCHANGED <<cpu, fault, callbacks, dots, frames, cbFrame, enAt241,
                   statusRead, nmis, last, nops>>

PpuReadStatus ==
    /\ Running
    /\ Commit(M_status_read(Here, [bus EXCEPT !.ppu = NesPPU_read_status(bus.ppu).ppu]))
    /\ UNCHANGED <<cpu, fault, nmis, last, nops>>

PollNmi ==
    /\ Running
    /\ bus' = Bus_poll_nmi_status(bus).bus
    /\ UNCHANGED <<cpu, fault, callbacks, dots, frames, cbFrame, enAt241,
                   statusRead, nmis, last, nops>>

NextPpu ==
    \/ \E d \in TickDots : PpuTick(d)
    \/ \E v \in CtrlBytes : PpuWriteCtrl(v)
    \/ PpuReadStatus
    \/ PollNmi

SpecPpu == Init /\ [][NextPpu]_vars

---------------------------------------------------------------------------
\* the bus driven by its callers
BusTick(n) ==
    /\ Running
    /\ Commit(M_bus_tick(Here, n))
    /\ UNCHANGED <<cpu, fault, nmis, last, nops>>

BusWrite(addr, data) ==
    /\ Running
    /\ LET written(w) == bus' = w.bus /\ fault' = w.panic
       IN  written(Bus_mem_write(bus, addr, data))
    /\ UNCHANGED <<cpu, callbacks, dots, frames, cbFrame, enAt241,
                   statusRead, nmis, last, nops>>

BusReadStatus(addr) ==
    /\ Running
    /\ LET read(r) == Commit(M_status_read(Here, r.bus)) /\ fault' = r.panic
       IN  read(Bus_mem_read(bus, addr))
    /\ UNCHANGED <<cpu, nmis, last, nops>>

NextBus ==
    \/ \E n \in TickCycles : BusTick(n)
    \/ \E a \in CtrlAddrs, v \in CtrlBytes : BusWrite(a, v)
    \/ \E a \in StatusAddrs : BusReadStatus(a)
    \/ PollNmi

SpecBus == Init /\ [][NextBus]_vars

---------------------------------------------------------------------------
\* the CPU run loop over a frame, entered after cpu.reset() on CpuRom.  The
\* program is the cartridge's: it lies between $8000 and ProgramEnd, and its
\* bytes are chosen when the loop fetches them
InitCpu ==
    LET reset(r) ==
            /\ bus = r.bus
            /\ cpu = r.cpu
            /\ fault = r.panic
    IN  /\ reset(CPU_reset(CPU_new, Bus_new(CpuRom)))
        /\ callbacks = 0 /\ dots = 0 /\ frames = 0 /\ cbFrame = 0
        /\ enAt241 = FALSE /\ statusRead = FALSE
        /\ nmis = 0
        /\ last = NoOp
        /\ nops = 0

\* the state after one step of the loop; the history of the ticks is not
\* kept in these runs, and the cartridge is the one the bus was built on
CpuCommit(o) ==
    /\ cpu' = [o.cpu EXCEPT !.ticks = <<>>]
    /\ fault' = o.panic
    /\ Commit([o.m EXCEPT !.bus.prg_rom = bus.prg_rom])
    /\ nmis' = nmis + (IF o.pc >= 0 THEN 1 ELSE 0)

\* the top of the loop
CpuPoll ==
    /\ CpuRunning
    /\ cpu.at = "poll"
    /\ CpuCommit(CPU_poll(cpu, Here))
    /\ UNCHANGED <<last, nops>>

\* the rest of the pass, with the opcode `code` and the word `operand` after
\* it in the cartridge at the program counter
CpuExec(code, operand) ==
    /\ CpuRunning
    /\ cpu.at = "fetch"
    /\ cpu.program_counter >= 32768 /\ cpu.program_counter + 3 <= ProgramEnd
    /\ LET at_pc(rom) ==
               Store(Store(Store(rom, cpu.program_counter - 32768, code),
                           cpu.program_counter - 32767, operand % 256),
                     cpu.program_counter - 32766, operand \div 256)
       IN  CpuCommit(CPU_step(cpu, [Here EXCEPT !.bus.prg_rom = at_pc(@)]))
    /\ UNCHANGED <<last, nops>>

NextCpu ==
    \/ CpuPoll
    \/ \E code \in RunCodes : \E operand \in Operands(code) : CpuExec(code, operand)

SpecCpu == InitCpu /\ [][NextCpu]_vars

---------------------------------------------------------------------------
\* the PPU register file driven directly, from the start of a vertical blank
\* n successive calls of NesPPU::tick(d), evaluated half by half
RECURSIVE M_ppu_ticks(_, _, _)
M_ppu_ticks(m, d, n) ==
    IF n = 0 THEN m
    ELSE IF n = 1 THEN M_ppu_tick(m, d)
    ELSE LET second_half(h) == IF h.dots >= 0 THEN M_ppu_ticks(h, d, n - (n \div 2)) ELSE h
         IN  second_half(M_ppu_ticks(m, d, n \div 2))

\* name-table bytes stored before the run
VramImage(b) ==
    [b EXCEPT !.ppu.vram = Store(Store(Store(b.ppu.vram, 773, 102), 774, 119), 1023, 136)]

\* 323 ticks of 255 dots from power-on: scanline 241, VBlank set
InVblank(rom) == M_ppu_ticks(Machine(VramImage(Bus_new(rom))), 255, 323)

\* the cartridge has one CHR page or none (CHR page count 0 in its header)
InitRegs ==
    \E mirroring \in {"HORIZONTAL", "VERTICAL"}, chr_rom \in {ChrImage, Filled(0, 0)} :
        LET started(m) ==
                /\ bus = m.bus
                /\ cpu = CPU_new
                /\ fault = ""
                /\ callbacks = m.callbacks /\ dots = m.dots /\ frames = m.frames
                /\ cbFrame = m.cbFrame /\ enAt241 = m.enAt241 /\ statusRead = m.statusRead
                /\ nmis = 0
                /\ last = NoOp
                /\ nops = 0
        IN  started(InVblank([Cartridge(mirroring) EXCEPT !.chr_rom = chr_rom]))

\* bytes written to PPUADDR: CHR ($05xx), name tables ($23xx), their mirror
\* ($30xx), above 14 bits ($63xx), palette ($3Fxx after masking $FF); $FF as
\* a low byte carries
AddrBytes == {5, 35, 48, 99, 255}
ScrollBytes == {7}
DataBytes == {85}
IncBytes == {0, 4}

RegsRunning == fault = "" /\ nops < MaxOps

RegHistory == UNCHANGED <<cpu, callbacks, dots, frames, cbFrame, enAt241, nmis>>

RegWriteAddr(v) ==
    /\ RegsRunning
    /\ bus' = [bus EXCEPT !.ppu = NesPPU_write_to_ppu_addr(bus.ppu, v)]
    /\ last' = Op("write_to_ppu_addr", v, 0, 0)
    /\ nops' = nops + 1
    /\ UNCHANGED <<fault, statusRead>>
    /\ RegHistory

RegWriteScroll(v) ==
    /\ RegsRunning
    /\ bus' = [bus EXCEPT !.ppu = NesPPU_write_to_scroll(bus.ppu, v)]
    /\ last' = Op("write_to_scroll", v, 0, 0)
    /\ nops' = nops + 1
    /\ UNCHANGED <<fault, statusRead>>
    /\ RegHistory

RegWriteCtrl(v) ==
    /\ RegsRunning
    /\ bus' = [bus EXCEPT !.ppu = NesPPU_write_to_ctrl(bus.ppu, v)]
    /\ last' = Op("write_to_ctrl", v, 0, 0)
    /\ nops' = nops + 1
    /\ UNCHANGED <<fault, statusRead>>
    /\ RegHistory

RegReadStatus ==
    /\ RegsRunning
    /\ LET read(r) ==
               /\ bus' = [bus EXCEPT !.ppu = r.ppu]
               /\ statusRead' = M_status_read(Here, bus).statusRead
               /\ last' = Op("read_status", 0, r.ret, 0)
       IN  read(NesPPU_read_status(bus.ppu))
    /\ nops' = nops + 1
    /\ UNCHANGED fault
    /\ RegHistory

RegReadData ==
    /\ RegsRunning
    /\ LET read(r) ==
               /\ bus' = [bus EXCEPT !.ppu = r.ppu]
               /\ fault' = r.panic
               /\ last' = Op("read_data", 0, r.ret, AddrRegister_get(bus.ppu.addr))
       IN  read(NesPPU_read_data(bus.ppu))
    /\ nops' = nops + 1
    /\ UNCHANGED statusRead
    /\ RegHistory

RegWriteData(v) ==
    /\ RegsRunning
    /\ LET written(r) ==
               /\ bus' = [bus EXCEPT !.ppu = r.ppu]
               /\ fault' = r.panic
               /\ last' = Op("write_to_data", v, 0, AddrRegister_get(bus.ppu.addr))
       IN  written(NesPPU_write_to_data(bus.ppu, v))
    /\ nops' = nops + 1
    /\ UNCHANGED statusRead
    /\ RegHistory

NextRegs ==
    \/ \E v \in AddrBytes : RegWriteAddr(v)
    \/ \E v \in ScrollBytes : RegWriteScroll(v)
    \/ \E v \in IncBytes : RegWriteCtrl(v)
    \/ RegReadStatus
    \/ RegReadData
    \/ \E v \in DataBytes : RegWriteData(v)

SpecRegs == InitRegs /\ [][NextRegs]_vars

---------------------------------------------------------------------------
\* the two-write latches alone, over unbounded sequences of writes
LatchBytes == {0, 1, 5, 35, 63, 64, 99, 127, 128, 191, 192, 255}

LatchWriteAddr(v) ==
    /\ fault = ""
    /\ bus' = [bus EXCEPT !.ppu = NesPPU_write_to_ppu_addr(bus.ppu, v)]
    /\ last' = Op("write_to_ppu_addr", v, 0, 0)
    /\ UNCHANGED <<fault, statusRead, nops>>
    /\ RegHistory

LatchWriteScroll(v) ==
    /\ fault = ""
    /\ bus' = [bus EXCEPT !.ppu = NesPPU_write_to_scroll(bus.ppu, v)]
    /\ last' = Op("write_to_scroll", v, 0, 0)
    /\ UNCHANGED <<fault, statusRead, nops>>
    /\ RegHistory

LatchReadStatus ==
    /\ fault = ""
    /\ LET read(r) ==
               /\ bus' = [bus EXCEPT !.ppu = r.ppu]
               /\ last' = Op("read_status", 0, r.ret, 0)
       IN  read(NesPPU_read_status(bus.ppu))
    /\ UNCHANGED <<fault, statusRead, nops>>
    /\ RegHistory

NextLatch ==
    \/ \E v \in LatchBytes : LatchWriteAddr(v)
    \/ \E v \in ScrollBytes : LatchWriteScroll(v)
    \/ LatchReadStatus

SpecLatch == Init /\ [][NextLatch]_vars

(***************************************************************************)
(* Properties.                                                             *)
(***************************************************************************)
Pending == IsSome(bus.ppu.nmi_interrupt)

\* C1: Bus::tick invokes the frame callback exactly once when the NMI latch
\* was none before the PPU advanced and is pending after it, and not on any
\* other tick or operation: the callbacks count the none-to-pending
\* transitions of the latch.
C1_CallbackOnRisingEdge ==
    [][callbacks' = callbacks + (IF ~Pending /\ Pending' THEN 1 ELSE 0)]_vars

\* two callbacks have run, and ticks went by while the second NMI stayed pending
C1_Witness ==
    /\ callbacks = 2
    /\ Pending
    /\ bus.ppu.scanline = 250

\* C2 (as stated): in every frame, i.e. between two scanline wraps, the frame
\* callback is invoked exactly once.
C2_OncePerFrame ==
    [][frames' = frames + 1 => cbFrame = 1]_vars

\* C2 (amended): in every frame the frame callback is invoked at most once,
\* and exactly once if and only if scanline 241 was entered with NMI-enable
\* set in PPUCTRL; a frame whose scanline 241 is entered with NMI-enable
\* clear has no callback.
C2_OncePerNmiFrame ==
    [][/\ cbFrame' <= 1
       /\ frames' = frames + 1 => cbFrame = (IF enAt241 THEN 1 ELSE 0)]_vars

\* two frames have completed, one with a callback and one without
C2_Witness ==
    /\ frames = 2
    /\ callbacks = 1

\* C3: when the NMI latch is pending at the top of a run-loop iteration the
\* NMI is serviced before the next instruction is fetched, and the poll
\* clears the latch; NMIs are serviced only there, so every latched NMI is
\* serviced exactly once and none is lost (the NMIs latched are the NMIs
\* serviced plus the one still pending).
C3_NmiServicedOnce ==
    [][/\ (cpu.at = "poll" /\ Pending) =>
              (nmis' = nmis + 1 /\ ~Pending' /\ cpu'.at = "fetch")
       /\ nmis' # nmis => (cpu.at = "poll" /\ Pending /\ nmis' = nmis + 1)
       /\ callbacks' = nmis' + (IF Pending' THEN 1 ELSE 0)]_vars

\* an NMI was latched during the run and has been serviced
C3_Witness ==
    /\ nmis = 1
    /\ callbacks = 1
    /\ cpu.at = "fetch"
    /\ ~Pending

\* C4: the NMI latch goes from none to pending exactly when a tick moves the
\* PPU into scanline 241 while NMI-enable is set; no other operation sets
\* it, and setting NMI-enable during the vertical blank does not.
C4_LatchOnlyAt241 ==
    [][/\ (~Pending /\ Pending') =>
              /\ Entered241(bus.ppu, bus'.ppu)
              /\ generate_vblank_nmi(bus.ppu.ctrl)
              /\ dots' # dots
       /\ (Entered241(bus.ppu, bus'.ppu) /\ generate_vblank_nmi(bus.ppu.ctrl)) =>
              (~Pending /\ Pending')]_vars

\* NMI-enable was set after scanline 241 was entered, VBlank still set, and
\* no NMI is pending
C4_Witness ==
    /\ ~enAt241
    /\ bus.ppu.scanline >= VblankScanline
    /\ generate_vblank_nmi(bus.ppu.ctrl)
    /\ is_in_vblank(bus.ppu.status)
    /\ ~Pending
    /\ callbacks = 0

\* C5: starting at scanline 0, dot 0, after ticks of at most 255 dots each
\* that total D dots, the dot counter is D mod 341, the scanline is
\* floor(D / 341) mod 262, and floor(D / (341 * 262)) ticks returned true.
C5_TickArithmetic ==
    /\ bus.ppu.cycles = dots % DotsPerScanline
    /\ bus.ppu.scanline = (dots \div DotsPerScanline) % ScanlinesPerFrame
    /\ frames = dots \div (DotsPerScanline * ScanlinesPerFrame)

\* a frame has wrapped and the dot counter stands on its last value
C5_Witness ==
    /\ frames = 1
    /\ bus.ppu.scanline = 100
    /\ bus.ppu.cycles = DotsPerScanline - 1

\* C6: the VBlank bit is set by the tick that enters scanline 241 and
\* cleared by the wrap and by every STATUS read: it is 1 exactly while the
\* scanline is in 241..261 and STATUS has not been read since 241 was
\* entered.
C6_VblankBit ==
    is_in_vblank(bus.ppu.status) <=>
        /\ bus.ppu.scanline \in VblankScanline .. (ScanlinesPerFrame - 1)
        /\ ~statusRead

\* in the second frame's vertical blank, after STATUS was read there
C6_Witness ==
    /\ frames = 1
    /\ bus.ppu.scanline = ScanlinesPerFrame - 1
    /\ statusRead
    /\ ~is_in_vblank(bus.ppu.status)

\* C7: after any sequence of Bus::tick(n) with n <= 85, the PPU position in
\* dots, frames * 341 * 262 + scanline * 341 + dot, is three times the
\* bus's CPU cycle counter.
C7_ThreeDotsPerCycle ==
    frames * DotsPerScanline * ScanlinesPerFrame
        + bus.ppu.scanline * DotsPerScanline + bus.ppu.cycles = 3 * bus.cycles

\* the first CPU cycle of the second frame
C7_Witness ==
    /\ frames = 1
    /\ bus.cycles = 29781
    /\ bus.ppu.scanline = 0
    /\ bus.ppu.cycles = 1

\* C8: a STATUS read returns the status as it was before the read, clears
\* the VBlank bit and nothing else of the status, leaves the PPUADDR latch
\* expecting the high byte and the PPUSCROLL latch expecting X; the second
\* of two successive reads sees VBlank = 0.
C8_ReadStatus ==
    [][(last'.op = "read_status" /\ nops' = nops + 1) =>
           /\ last'.ret = bus.ppu.status
           /\ bus'.ppu.status = WithBit(bus.ppu.status, 7, 0)
           /\ bus'.ppu.addr.hi_ptr
           /\ ~bus'.ppu.scroll.scroll_switch
           /\ last.op = "read_status" => Bit(last'.ret, 7) = 0]_vars

\* the first STATUS read of the vertical blank, made between the two writes
\* of PPUADDR and of PPUSCROLL, returned VBlank = 1
C8_Witness ==
    /\ last.op = "read_status"
    /\ Bit(last.ret, 7) = 1
    /\ nops = 3
    /\ bus.ppu.addr.value[1] # 0
    /\ bus.ppu.scroll.scroll_x # 0
    /\ bus.ppu.addr.hi_ptr
    /\ ~bus.ppu.scroll.scroll_switch

\* C9: PPUADDR writes alternate high byte, low byte, starting with the high
\* byte at power-on and after every STATUS read; after a high byte h and a
\* low byte l the address is ((h << 8) | l) & 0x3FFF and the latch expects
\* the high byte again.
C9_AddrLatch ==
    [][/\ last.op = "new" => bus.ppu.addr.hi_ptr
       /\ last'.op = "read_status" => bus'.ppu.addr.hi_ptr
       /\ last'.op = "write_to_ppu_addr" =>
              /\ bus'.ppu.addr.hi_ptr = ~bus.ppu.addr.hi_ptr
              /\ (~bus.ppu.addr.hi_ptr /\ last.op = "write_to_ppu_addr") =>
                     /\ AddrRegister_get(bus'.ppu.addr)
                            = (last.arg * 256 + last'.arg) % 16384
                     /\ bus'.ppu.addr.hi_ptr]_vars

\* $FF then $FF were written after a STATUS read: the address is $3FFF
C9_Witness ==
    /\ last.op = "write_to_ppu_addr"
    /\ last.prev = "write_to_ppu_addr"
    /\ last.arg = 255
    /\ bus.ppu.addr.hi_ptr
    /\ AddrRegister_get(bus.ppu.addr) = 16383

\* C10: with PPUADDR in $0000-$2FFF a PPUDATA read returns the read buffer
\* as it was and reloads the buffer with the byte at the address PPUADDR
\* held before its increment: the k-th of successive reads returns the byte
\* addressed at the (k-1)-th.
C10_BufferedRead ==
    [][(last'.op = "read_data" /\ nops' = nops + 1
            /\ AddrRegister_get(bus.ppu.addr) <= 12287) =>
           LET p == bus.ppu
               byteAt(a) == IF a <= 8191 THEN At(p.chr_rom, a)
                            ELSE At(p.vram, NesPPU_mirror_vram_addr(p, a))
           IN  /\ fault' = ""
               /\ last'.ret = p.internal_data_buf
               /\ bus'.ppu.internal_data_buf = byteAt(AddrRegister_get(p.addr))
               /\ (last.op = "read_data" /\ last.addr <= 12287) =>
                      last'.ret = byteAt(last.addr)]_vars

\* C11: a PPUDATA read with PPUADDR in $3F00-$3FFF returns the palette byte
\* of that address at once (the 32-byte palette repeats through the range)
\* and reloads the read buffer with the name-table byte at the mirrored
\* address.
C11_PaletteRead ==
    [][(last'.op = "read_data" /\ nops' = nops + 1
            /\ AddrRegister_get(bus.ppu.addr) >= 16128) =>
           /\ fault' = ""
           /\ last'.ret = At(bus.ppu.palette_table,
                             (AddrRegister_get(bus.ppu.addr) - 16128) % 32)
           /\ bus'.ppu.internal_data_buf
                  = At(bus.ppu.vram,
                       NesPPU_mirror_vram_addr(bus.ppu, AddrRegister_get(bus.ppu.addr)))]_vars

---------------------------------------------------------------------------
\* a byte written through one PPU address and read through another: the
\* unit tests' sequence of register calls, for every name-table offset and
\* pair of tables, and for every pair of the palette's first entries
MirPairs ==
    {<<8192 + 1024 * t1 + x, 8192 + 1024 * t2 + x>> :
         <<x, t1, t2>> \in (0 .. 1023) \X (0 .. 3) \X (0 .. 3)}
    \cup ({16128 + 16 * h + 4 * q : h \in 0 .. 1, q \in 0 .. 3}
          \X {16128 + 16 * h + 4 * q : h \in 0 .. 1, q \in 0 .. 3})

\* the calls made, in order: set PPUADDR to a1, write; set PPUADDR to a2,
\* read; set PPUADDR to a2 again, read
MirStep ==
    IF nops < 9
    THEN << "hi1", "lo1", "data", "hi2", "lo2", "read", "hi2", "lo2", "read" >>[nops + 1]
    ELSE "done"

InitMirror ==
    \E mirroring \in {"HORIZONTAL", "VERTICAL"}, pair \in MirPairs :
        /\ bus = Bus_new(Cartridge(mirroring))
        /\ cpu = CPU_new
        /\ fault = ""
        /\ callbacks = 0 /\ dots = 0 /\ frames = 0 /\ cbFrame = 0
        /\ enAt241 = FALSE /\ statusRead = FALSE /\ nmis = 0
        /\ last = [op |-> "new", arg |-> 0, ret |-> 0, addr |-> 0, prev |-> "new",
                   a1 |-> pair[1], a2 |-> pair[2], v |-> 102, first |-> 0]
        /\ nops = 0

MirWriteAddr ==
    /\ fault = ""
    /\ MirStep \in {"hi1", "lo1", "hi2", "lo2"}
    /\ LET v == CASE MirStep = "hi1" -> last.a1 \div 256
                  [] MirStep = "lo1" -> last.a1 % 256
                  [] MirStep = "hi2" -> last.a2 \div 256
                  [] OTHER -> last.a2 % 256
       IN  /\ bus' = [bus EXCEPT !.ppu = NesPPU_write_to_ppu_addr(bus.ppu, v)]
           /\ last' = [last EXCEPT !.op = "write_to_ppu_addr", !.arg = v,
                                   !.prev = last.op]
    /\ nops' = nops + 1
    /\ UNCHANGED <<fault, statusRead>>
    /\ RegHistory

MirWriteData ==
    /\ fault = ""
    /\ MirStep = "data"
    /\ LET written(r) ==
               /\ bus' = [bus EXCEPT !.ppu = r.ppu]
               /\ fault' = r.panic
               /\ last' = [last EXCEPT !.op = "write_to_data", !.arg = last.v,
                                       !.addr = AddrRegister_get(bus.ppu.addr),
                                       !.prev = last.op]
       IN  written(NesPPU_write_to_data(bus.ppu, last.v))
    /\ nops' = nops + 1
    /\ UNCHANGED statusRead
    /\ RegHistory

MirReadData ==
    /\ fault = ""
    /\ MirStep = "read"
    /\ LET read(r) ==
               /\ bus' = [bus EXCEPT !.ppu = r.ppu]
               /\ fault' = r.panic
               /\ last' = [last EXCEPT !.op = "read_data", !.ret = r.ret,
                                       !.addr = AddrRegister_get(bus.ppu.addr),
                                       !.prev = last.op,
                                       !.first = IF nops = 5 THEN r.ret ELSE last.first]
       IN  read(NesPPU_read_data(bus.ppu))
    /\ nops' = nops + 1
    /\ UNCHANGED statusRead
    /\ RegHistory

NextMirror == MirWriteAddr \/ MirWriteData \/ MirReadData

SpecMirror == InitMirror /\ [][NextMirror]_vars

\* C12: the palette entries $3F10/$3F14/$3F18/$3F1C mirror
\* $3F00/$3F04/$3F08/$3F0C in both directions: a byte written through
\* $2007 at either address of a pair is returned by the $2007 read at
\* either address of the pair.
C12_PaletteMirror ==
    (/\ last.a1 >= 16128
     /\ last.a1 % 16 = last.a2 % 16
     /\ nops >= 6) =>
        /\ fault = ""
        /\ last.first = last.v

\* C13: with horizontal mirroring name tables 0 and 1 share one physical
\* bank and 2 and 3 the other; with vertical mirroring 0 and 2 share one
\* and 1 and 3 the other.  For every offset, two name-table addresses map
\* to the same VRAM index exactly when their tables share a bank, the index
\* is below $800, and a byte written through one address is read back
\* through another exactly when they are aliases.
C13_NameTableMirror ==
    last.a1 < 12288 =>
        LET table(a) == (a - 8192) \div 1024
            bank(a) == IF bus.ppu.mirroring = "HORIZONTAL"
                       THEN table(a) \div 2 ELSE table(a) % 2
            aliases == bank(last.a1) = bank(last.a2)
            i1 == NesPPU_mirror_vram_addr(bus.ppu, last.a1)
            i2 == NesPPU_mirror_vram_addr(bus.ppu, last.a2)
        IN  /\ fault = ""
            /\ i1 \in 0 .. 2047 /\ i2 \in 0 .. 2047
            /\ i1 % 1024 = last.a1 % 1024 /\ i1 \div 1024 = bank(last.a1)
            /\ (i1 = i2) <=> aliases
            /\ MirStep = "done" => (last.ret = last.v <=> aliases)
            /\ MirStep = "done" => (last.ret = 0 <=> ~aliases)

\* horizontal mirroring: the byte written at $23FF was read back at $27FF
C13_Witness ==
    /\ MirStep = "done"
    /\ bus.ppu.mirroring = "HORIZONTAL"
    /\ last.a1 = 9215 /\ last.a2 = 10239
    /\ last.ret = last.v

---------------------------------------------------------------------------
\* the bus read and written by the CPU, from power-on
MemWrite(addr, data) ==
    /\ fault = "" /\ nops < MaxMemOps
    /\ LET written(w) == bus' = w.bus /\ fault' = w.panic
       IN  written(Bus_mem_write(bus, addr, data))
    /\ last' = Op("mem_write", data, 0, addr)
    /\ nops' = nops + 1
    /\ UNCHANGED statusRead
    /\ RegHistory

MemRead(addr) ==
    /\ fault = "" /\ nops < MaxMemOps
    /\ LET read(r) ==
               /\ bus' = r.bus
               /\ fault' = r.panic
               /\ last' = Op("mem_read", 0, r.ret, addr)
       IN  read(Bus_mem_read(bus, addr))
    /\ nops' = nops + 1
    /\ UNCHANGED statusRead
    /\ RegHistory

\* RAM and its mirrors, OAMADDR, OAMDMA and the cartridge are written;
\* RAM, the write-only registers and their mirrors, OAMDATA and the
\* cartridge are read
NextMem ==
    \/ \E a \in {512, 2815, 7680}, v \in {119, 136} : MemWrite(a, v)
    \/ \E v \in {16, 255} : MemWrite(8195, v)
    \/ \E v \in {2, 32, 63, 64, 65, 128} : MemWrite(16404, v)
    \/ \E a \in {32768, 65535} : MemWrite(a, 119)
    \/ \E a \in {512, 2560, 767, 6911, 1536, 5632} : MemRead(a)
    \/ \E a \in {8192, 8193, 8195, 8197, 8198, 8200, 16377, 16382, 16404} : MemRead(a)
    \/ \E a \in {8196, 32768} : MemRead(a)

SpecMem == Init /\ [][NextMem]_vars

\* C14 as stated: for every page byte H and OAM address a, the write of H
\* to $4014 completes with OAM[(a+i) mod 256] the CPU-visible byte at
\* (H<<8)+i for every i, and the OAM address again a.
C14_OamDmaAnyPage ==
    [][(last'.op = "mem_write" /\ nops' = nops + 1 /\ last'.addr = 16404) =>
          /\ fault' = ""
          /\ \A i \in 0 .. 255 :
                At(bus'.ppu.oam_data, (bus.ppu.oam_addr + i) % 256)
                    = Bus_mem_read(bus, last'.arg * 256 + i).ret
          /\ bus'.ppu.oam_addr = bus.ppu.oam_addr]_vars

\* C14: for every page byte H outside $20..$40 and every OAM address a, the
\* write of H to $4014 leaves OAM[(a+i) mod 256] the CPU-visible byte at
\* (H<<8)+i for every i in 0..255, and the OAM address again a.  For H in
\* $20..$40 the transfer reads a write-only register ($2000 or $4014),
\* which is fatal, and OAM is left as it was.
C14_OamDma ==
    [][(last'.op = "mem_write" /\ nops' = nops + 1 /\ last'.addr = 16404) =>
          IF last'.arg \in 32 .. 64
          THEN /\ fault' # ""
               /\ bus'.ppu.oam_data = bus.ppu.oam_data
          ELSE /\ fault' = ""
               /\ \A i \in 0 .. 255 :
                     /\ Bus_mem_read(bus, last'.arg * 256 + i).panic = ""
                     /\ At(bus'.ppu.oam_data, (bus.ppu.oam_addr + i) % 256)
                            = Bus_mem_read(bus, last'.arg * 256 + i).ret
               /\ bus'.ppu.oam_addr = bus.ppu.oam_addr]_vars

\* page $02 with $0200 = $77 was copied with the OAM address at $10
C14_Witness ==
    /\ last.op = "mem_write" /\ last.addr = 16404 /\ last.arg = 2
    /\ fault = ""
    /\ bus.ppu.oam_addr = 16
    /\ At(bus.ppu.oam_data, 16) = 119
    /\ At(bus.ppu.oam_data, 15) = 0

---------------------------------------------------------------------------
\* the controllers: the CPU writes $4016 and reads $4016/$4017, the host
\* presses and releases buttons.  last.high: the latest write had bit 0 set;
\* last.r1, last.r2: the reads of each controller since the latest completed
\* strobe pulse (9: nine or more; -1: no pulse completed, or strobe high).
PadOp(name, arg, ret, addr, high, r1, r2) ==
    [op |-> name, arg |-> arg, ret |-> ret, addr |-> addr, prev |-> "",
     high |-> high, r1 |-> r1, r2 |-> r2]

PadHistory == IF "high" \in DOMAIN last THEN last
              ELSE PadOp("new", 0, 0, 0, FALSE, -1, -1)

PadWrite(data) ==
    /\ fault = ""
    /\ LET written(w) == bus' = w.bus /\ fault' = w.panic
       IN  written(Bus_mem_write(bus, 16406, data))
    /\ LET h == PadHistory
           pulse == h.high /\ data % 2 = 0
       IN  last' = PadOp("mem_write", data, 0, 16406, data % 2 = 1,
                         IF data % 2 = 1 THEN -1 ELSE IF pulse THEN 0 ELSE h.r1,
                         IF data % 2 = 1 THEN -1 ELSE IF pulse THEN 0 ELSE h.r2)
    /\ UNCHANGED <<statusRead, nops>>
    /\ RegHistory

PadRead(addr) ==
    /\ fault = ""
    /\ LET h == PadHistory
           count(r) == IF r < 0 THEN r ELSE IF r < 9 THEN r + 1 ELSE 9
           read(r) ==
               /\ bus' = r.bus
               /\ fault' = r.panic
               /\ last' = PadOp("mem_read", 0, r.ret, addr, h.high,
                                IF addr = 16406 THEN count(h.r1) ELSE h.r1,
                                IF addr = 16407 THEN count(h.r2) ELSE h.r2)
       IN  read(Bus_mem_read(bus, addr))
    /\ UNCHANGED <<statusRead, nops>>
    /\ RegHistory

\* the host's key handler: joypad.set_button_pressed_status(button, pressed)
PadSet(pad, button, pressed) ==
    /\ fault = ""
    /\ bus' = IF pad = 1
              THEN [bus EXCEPT !.joypad1 =
                        Joypad_set_button_pressed_status(@, button, pressed)]
              ELSE [bus EXCEPT !.joypad2 =
                        Joypad_set_button_pressed_status(@, button, pressed)]
    /\ last' = [PadHistory EXCEPT !.op = "set_button", !.arg = button, !.ret = 0,
                                  !.addr = pad]
    /\ UNCHANGED <<fault, statusRead, nops>>
    /\ RegHistory

NextPad ==
    \/ \E data \in {0, 1, 2, 3} : PadWrite(data)
    \/ \E addr \in {16406, 16407} : PadRead(addr)
    \/ \E button \in {0, 7}, pressed \in BOOLEAN : PadSet(1, button, pressed)
    \/ \E pressed \in BOOLEAN : PadSet(2, 1, pressed)

SpecPad == Init /\ [][NextPad]_vars

\* C15: after a strobe pulse on $4016 (a write with bit 0 set, then a write
\* with bit 0 clear), whatever the controllers' state before it, the k-th
\* read of a controller (k = 0..7) returns bit k of its button mask (A, B,
\* Select, Start, Up, Down, Left, Right) and every later read returns 1;
\* the pulse restarts both controllers, and a read of $4016 or $4017 leaves
\* the other controller where it was.
C15_ControllerSerial ==
    [][LET h == PadHistory
       IN  /\ (last'.op = "mem_read" /\ last'.addr = 16406 /\ h.r1 >= 0) =>
                 /\ fault' = ""
                 /\ last'.ret = IF h.r1 < 8
                                THEN Bit(bus.joypad1.button_status, h.r1) ELSE 1
                 /\ bus'.joypad2 = bus.joypad2
           /\ (last'.op = "mem_read" /\ last'.addr = 16407 /\ h.r2 >= 0) =>
                 /\ fault' = ""
                 /\ last'.ret = IF h.r2 < 8
                                THEN Bit(bus.joypad2.button_status, h.r2) ELSE 1
                 /\ bus'.joypad1 = bus.joypad1
           /\ (last'.op = "mem_write" /\ h.high /\ last'.arg % 2 = 0) =>
                 /\ last'.r1 = 0 /\ last'.r2 = 0
                 /\ bus'.joypad1.button_index = 0
                 /\ bus'.joypad2.button_index = 0]_vars

\* with only Right held on controller 1, its eighth read after the pulse
\* returned 1 while controller 2, read three times, reported B
C15_Witness ==
    /\ last.op = "mem_read" /\ last.addr = 16406
    /\ last.r1 = 8 /\ last.ret = 1
    /\ bus.joypad1.button_status = 128
    /\ last.r2 = 3
    /\ bus.joypad2.button_status = 2

\* C16: CPU RAM is mirrored every 2 KiB.  A write to an address a in
\* $0000-$1FFF changes RAM cell a & $07FF and no other cell (and nothing
\* else of the bus), every address b in $0000-$1FFF with b & $07FF =
\* a & $07FF then reads the written byte, and a read of such a b right
\* after the write returned it.
C16_RamMirror ==
    [][/\ (last'.op = "mem_write" /\ nops' = nops + 1 /\ last'.addr <= 8191) =>
             /\ fault' = ""
             /\ \A i \in 0 .. 2047 :
                    At(bus'.cpu_vram, i) = IF i = last'.addr % 2048 THEN last'.arg
                                           ELSE At(bus.cpu_vram, i)
             /\ bus' = [bus EXCEPT !.cpu_vram = bus'.cpu_vram]
             /\ \A k \in 0 .. 3 :
                    LET read(r) == r.ret = last'.arg /\ r.panic = "" /\ r.bus = bus'
                    IN  read(Bus_mem_read(bus', (last'.addr % 2048) + 2048 * k))
       /\ (/\ last'.op = "mem_read" /\ nops' = nops + 1
           /\ last.op = "mem_write" /\ last.addr <= 8191
           /\ last'.addr <= 8191 /\ last'.addr % 2048 = last.addr % 2048) =>
             /\ fault' = ""
             /\ last'.ret = last.arg
             /\ bus' = bus]_vars

\* $88 written at $1E00 was read back at $1600
C16_Witness ==
    /\ last.op = "mem_read" /\ last.addr = 5632 /\ last.ret = 136
    /\ last.prev = "mem_write"
    /\ At(bus.cpu_vram, 1536) = 136
    /\ At(bus.cpu_vram, 512) = 0

\* C17: a CPU read of a write-only register ($2000, $2001, $2003, $2005,
\* $2006, a mirror of one of them in $2008-$3FFF, or $4014) is fatal: it
\* returns no value, execution stops, and the PPU and the bus are as they
\* were.
C17_WriteOnlyRead ==
    [][(/\ last'.op = "mem_read" /\ nops' = nops + 1
        /\ \/ last'.addr \in {8192, 8193, 8195, 8197, 8198, 16404}
           \/ /\ last'.addr \in 8200 .. 16383
              /\ last'.addr % 8 \in {0, 1, 3, 5, 6}) =>
          /\ fault' # ""
          /\ bus' = bus]_vars

\* the read of $3FF9, a mirror of $2001, stopped the machine after a
\* write to RAM and a write to OAMADDR
C17_Witness ==
    /\ last.op = "mem_read" /\ last.addr = 16377
    /\ fault # ""
    /\ bus.ppu.oam_addr = 255
    /\ At(bus.cpu_vram, 767) = 119

\* C18: a CPU write to $8000-$FFFF is the fatal attempt-to-write-ROM error:
\* execution stops with a fault and PRG ROM is as it was.
C18_RomWriteFatal ==
    [][(last'.op = "mem_write" /\ nops' = nops + 1 /\ last'.addr >= 32768) =>
          /\ fault' # ""
          /\ bus'.prg_rom = bus.prg_rom]_vars

\* the opcode bytes named by the arms of the run loop's `match code`
CPU_dispatch_codes ==
    {
      0, 1, 2, 3, 4, 5, 6, 7, 8, 9, 10, 11, 12, 13, 14, 15,
      16, 17, 18, 19, 20, 21, 22, 23, 24, 25, 26, 27, 28, 29, 30, 31,
      32, 33, 34, 35, 36, 37, 38, 39, 40, 41, 42, 43, 44, 45, 46, 47,
      48, 49, 50, 51, 52, 53, 54, 55, 56, 57, 58, 59, 60, 61, 62, 63,
      64, 65, 66, 67, 68, 69, 70, 71, 72, 73, 74, 75, 76, 77, 78, 79,
      80, 81, 82, 83, 84, 85, 86, 87, 88, 89, 90, 91, 92, 93, 94, 95,
      96, 97, 98, 99, 100, 101, 102, 103, 104, 105, 106, 107, 108, 109, 110, 111,
      112, 113, 114, 115, 116, 117, 118, 119, 120, 121, 122, 123, 124, 125, 126, 127,
      128, 129, 130, 131, 132, 133, 134, 135, 136, 137, 138, 140, 141, 142, 143, 144,
      145, 146, 148, 149, 150, 151, 152, 153, 154, 157, 160, 161, 162, 163, 164, 165,
      166, 167, 168, 169, 170, 172, 173, 174, 175, 176, 177, 178, 179, 180, 181, 182,
      183, 184, 185, 186, 188, 189, 190, 191, 192, 193, 194, 195, 196, 197, 198, 199,
      200, 201, 202, 203, 204, 205, 206, 207, 208, 209, 210, 211, 212, 213, 214, 215,
      216, 217, 218, 219, 220, 221, 222, 223, 224, 225, 226, 227, 228, 229, 230, 231,
      232, 233, 234, 235, 236, 237, 238, 239, 240, 241, 242, 243, 244, 245, 246, 247,
      248, 249, 250, 251, 252, 253, 254, 255 }

---------------------------------------------------------------------------
\* the PPU two dots before scanline 241 with NMI-enable set: PPUCTRL written
\* at power-on, then 322 ticks of 255 dots and one of 69
BeforeVblank(b) ==
    M_ppu_tick(M_ppu_ticks(Machine(Bus_mem_write(b, 8192, 128).bus), 255, 322), 69)

\* the CPU reset and stepped, from any registers, with one instruction in
\* RAM at the program counter, a reset vector and the NMI vector $1234 in
\* the cartridge, and the PPU at power-on or about to enter the vertical
\* blank.  Y is set with the smaller values of X only, and the PPU is about
\* to enter the vertical blank with fewer registers still
InitRun ==
    \E a \in {0, 128}, x \in {0, 1, 127, 255}, y \in {0, 85}, sp \in {253, 16},
       st \in {36, 231}, pc \in {1536, 253}, code \in {op.code : op \in CPU_OPS_CODES} \cup {234, 76, 32, 208},
       b1 \in {0, 16, 255}, b2 \in {0, 2, 32}, vector \in {<<0, 6>>, <<52, 18>>},
       vblank \in BOOLEAN :
        LET started(m) ==
                /\ bus = m.bus
                /\ callbacks = m.callbacks /\ dots = m.dots /\ frames = m.frames
                /\ cbFrame = m.cbFrame /\ enAt241 = m.enAt241
                /\ statusRead = m.statusRead
            on(b) == IF vblank THEN started(BeforeVblank(b)) ELSE started(Machine(b))
        IN  /\ y # 0 => x \in {0, 1}
            /\ vblank => (x \in {0, 1} /\ y = 0 /\ st = 36 /\ pc = 1536 /\ vector = <<0, 6>>)
            /\ on([Bus_new([Cartridge("HORIZONTAL") EXCEPT
                               !.prg_rom = Store(Store(Store(Store(@, 32764, vector[1]),
                                                             32765, vector[2]),
                                                       32762, 52), 32763, 18)])
                     EXCEPT !.cpu_vram =
                               Store(Store(Store(@, pc, code), pc + 1, b1), pc + 2, b2)])
            /\ cpu = [CPU_new EXCEPT !.register_a = a, !.register_x = x, !.register_y = y,
                                     !.stack_pointer = sp, !.status = st,
                                     !.program_counter = pc]
            /\ fault = ""
            /\ nmis = 0
            /\ last = NoOp
            /\ nops = 0

\* cpu.reset(), as CPU::load_and_run calls it before cpu.run()
CpuReset ==
    /\ fault = "" /\ nops < MaxRunSteps
    /\ LET reset(r) == cpu' = [r.cpu EXCEPT !.at = "poll"] /\ bus' = r.bus /\ fault' = r.panic
       IN  reset(CPU_reset(cpu, bus))
    /\ last' = Op("reset", 0, 0, 0)
    /\ nops' = nops + 1
    /\ UNCHANGED <<callbacks, dots, frames, cbFrame, enAt241, statusRead, nmis>>

\* the run loop from one per-step callback to the next: when run is being
\* entered (cpu.at = "poll"), first the poll that precedes the first
\* callback; then the fetch and the instruction; then, unless run returned
\* or panicked, the poll at the top of the next pass, which services a
\* pending NMI.  last.arg is the opcode byte fetched and last.addr the
\* address it was fetched from; nmis counts the NMIs serviced
CpuStep ==
    /\ fault = "" /\ nops < MaxRunSteps
    /\ cpu.at \in {"poll", "fetch"}
    /\ LET Serviced(o) == IF o.pc >= 0 THEN 1 ELSE 0
           done(o, n) ==
               /\ cpu' = o.cpu
               /\ fault' = o.panic
               /\ Commit(o.m)
               /\ nmis' = nmis + n
           polled(o, n) == done(o, n + Serviced(o))
           stepped(o, n) ==
               IF o.panic = "" /\ o.cpu.at = "poll"
               THEN polled(CPU_poll(o.cpu, o.m), n)
               ELSE done(o, n)
           entered(e) ==
               /\ IF e.panic # "" THEN done(e, Serviced(e))
                  ELSE stepped(CPU_step(e.cpu, e.m), Serviced(e))
               /\ last' = Op("step", Bus_mem_read(e.m.bus, e.cpu.program_counter).ret, 0,
                             e.cpu.program_counter)
       IN  entered(IF cpu.at = "poll" THEN CPU_poll(cpu, Here)
                   ELSE Outcome(cpu, Here, "", -1))
    /\ nops' = nops + 1

\* programs given to CPU::load
Programs == {<<169, 5, 0>>, <<232>>}

\* cpu.load(program), as CPU::load_and_run calls it before cpu.reset();
\* last.arg is the length of the program and last.addr where it is put
CpuLoad(program) ==
    /\ fault = "" /\ nops < MaxRunSteps
    /\ LET loaded(w) == bus' = w.bus /\ fault' = w.panic
       IN  loaded(CPU_load(bus, program))
    /\ last' = Op("load", Len(program), 0, 1536)
    /\ nops' = nops + 1
    /\ UNCHANGED <<cpu, callbacks, dots, frames, cbFrame, enAt241, statusRead, nmis>>

NextRun == CpuReset \/ CpuStep \/ \E program \in Programs : CpuLoad(program)

SpecRun == InitRun /\ [][NextRun]_vars

\* C19: CPU reset() clears the registers whatever they were: afterwards
\* A = 0, X = 0, Y = 0, S = $FD, P = %0010_0100 and PC is the little-endian
\* word at $FFFC/$FFFD.
C19_Reset ==
    [][(last'.op = "reset" /\ nops' = nops + 1) =>
          /\ fault' = ""
          /\ cpu'.register_a = 0
          /\ cpu'.register_x = 0
          /\ cpu'.register_y = 0
          /\ cpu'.stack_pointer = 253
          /\ cpu'.status = 36
          /\ cpu'.program_counter
                 = Bus_mem_read(bus, 65533).ret * 256 + Bus_mem_read(bus, 65532).ret]_vars

\* C20: for every opcode of the table (none of them writes the program
\* counter), a step of the run loop that completes leaves the program
\* counter at the address of the opcode byte plus the opcode's length; when
\* the poll that follows the step services an NMI, that is the program
\* counter the service pushes.
C20_PcAdvance ==
    [][(last'.op = "step" /\ nops' = nops + 1 /\ fault' = "") =>
          \E op \in CPU_OPS_CODES :
              /\ op.code = last'.arg
              /\ op.code = Bus_mem_read(bus, cpu.program_counter).ret
              /\ last'.addr = cpu.program_counter
              /\ nmis' = nmis => cpu'.program_counter = cpu.program_counter + op.len
              /\ nmis' # nmis =>
                     At(bus'.cpu_vram, 256 + cpu'.stack_pointer + 3) * 256
                         + At(bus'.cpu_vram, 256 + cpu'.stack_pointer + 2)
                       = cpu.program_counter + op.len]_vars

\* STA $02FF,X with X = 1 was fetched at $0600 and left the program
\* counter at $0603, the accumulator stored at $0300
C20_Witness ==
    /\ last.op = "step" /\ last.arg = 157 /\ last.addr = 1536
    /\ fault = ""
    /\ cpu.program_counter = 1539
    /\ cpu.register_x = 1 /\ cpu.register_a = 128
    /\ At(bus.cpu_vram, 768) = 128

---------------------------------------------------------------------------
(***************************************************************************)
(* The handlers the dispatch of CPU::run_with_callback calls for the stack,*)
(* the jumps and the arithmetic, called with the program counter at the    *)
(* operand, as the run loop leaves it after the fetch.                     *)
(***************************************************************************)

\* variant: the carry flag is not added
CPU_plus_minus_nocarry(c, data) ==
    LET sum == c.register_a + data
        result == sum % 256
        s0 == WithBit(c.status, 0, IF sum > 255 THEN 1 ELSE 0)
        v == IF Bit(data, 7) # Bit(result, 7) /\ Bit(result, 7) # Bit(c.register_a, 7)
             THEN 1 ELSE 0
    IN  CPU_update_zero_and_negative_flags(
            [c EXCEPT !.status = WithBit(s0, 6, v), !.register_a = result], result)

\* CPU::plus_minus(data): the registers afterwards
CPU_plus_minus(c, data) ==
    LET c6 == Bit(c.status, 0)
        sum == c.register_a + data + c6
        result == sum % 256
        s0 == WithBit(c.status, 0, IF sum > 255 THEN 1 ELSE 0)
        v == IF Bit(data, 7) # Bit(result, 7) /\ Bit(result, 7) # Bit(c.register_a, 7)
             THEN 1 ELSE 0
    IN  CPU_update_zero_and_negative_flags(
            [c EXCEPT !.status = WithBit(s0, 6, v), !.register_a = result], result)

\* variant: the byte pulled becomes the status as it is
CPU_plp_flags_raw(p) == p

\* the status CPU::plp and CPU::rti keep of the byte pulled: B is cleared
\* and bit 5 set
CPU_plp_flags(p) == WithBit(WithBit(p, 4, 0), 5, 1)

\* CPU::bne, pha, php, pla, plp, jsr, rts, rti, jmp, adc, sbc, dec (dec_mem),
\* cmp, dcp, ldx and lax, each under its name.  sp_sub1 and sp_add1 are the u8 "-= 1"
\* and "+= 1" on the stack pointer.
CPU_handler(c, m, mnemonic, mode) ==
    LET done(s) == Outcome(s.cpu, [m EXCEPT !.bus = s.bus], s.panic, -1)
        rd(s, addr) ==
            IF s.panic # "" THEN s
            ELSE LET read(r) == [s EXCEPT !.bus = r.bus, !.panic = r.panic, !.ret = r.ret]
                 IN  read(Bus_mem_read(s.bus, addr))
        wr(s, addr, data) ==
            IF s.panic # "" THEN s
            ELSE LET written(w) == [s EXCEPT !.bus = w.bus, !.panic = w.panic]
                 IN  written(Bus_mem_write(s.bus, addr, data))
        sp_sub1(s) ==
            IF s.panic # "" THEN s
            ELSE IF s.cpu.stack_pointer = 0 /\ s.cpu.overflow_checks
                 THEN [s EXCEPT !.panic = "attempt to subtract with overflow"]
                 ELSE [s EXCEPT !.cpu.stack_pointer = (@ + 255) % 256]
        sp_add1(s) ==
            IF s.panic # "" THEN s
            ELSE IF s.cpu.stack_pointer = 255 /\ s.cpu.overflow_checks
                 THEN [s EXCEPT !.panic = "attempt to add with overflow"]
                 ELSE [s EXCEPT !.cpu.stack_pointer = (@ + 1) % 256]
        operand(s, md) ==
            IF s.panic # "" THEN [bus |-> s.bus, addr |-> 0, page_cross |-> FALSE,
                                  panic |-> s.panic]
            ELSE CPU_get_operand_address(s.cpu, s.bus, md, s.cpu.program_counter)
        pha == CPU_push(Entry(c, m.bus), c.register_a)
        php == CPU_push(Entry(c, m.bus), WithBit(c.status, 4, 1))
        pla ==
            LET pulled(s) ==
                    IF s.panic # "" THEN s
                    ELSE [s EXCEPT !.cpu = CPU_update_zero_and_negative_flags(
                                               [@ EXCEPT !.register_a = s.ret], s.ret)]
            IN  pulled(CPU_pull(Entry(c, m.bus)))
        plp ==
            LET pulled(s) ==
                    IF s.panic # "" THEN s
                    ELSE [s EXCEPT !.cpu.status = CPU_plp_flags(s.ret)]
            IN  pulled(CPU_pull(Entry(c, m.bus)))
        jsr ==
            LET stack_addr == 256 + c.stack_pointer
                future_pc == (c.program_counter + 1) % 65536
                jumped(s, g) ==
                    IF s.panic # "" THEN s
                    ELSE IF g.panic # "" THEN [s EXCEPT !.bus = g.bus, !.panic = g.panic]
                    ELSE [s EXCEPT !.bus = g.bus, !.cpu.program_counter = g.addr]
                target(s) == jumped(s, operand(s, mode))
            IN  IF c.program_counter = 65535 /\ c.overflow_checks
                THEN [Entry(c, m.bus) EXCEPT !.panic = "attempt to add with overflow"]
                ELSE target(sp_sub1(wr(sp_sub1(wr(Entry(c, m.bus), stack_addr,
                                                  future_pc \div 256)),
                                       stack_addr - 1, future_pc % 256)))
        rts ==
            LET returned(lo, hi) ==
                    IF hi.panic # "" THEN hi
                    ELSE IF hi.ret * 256 + lo.ret = 65535 /\ hi.cpu.overflow_checks
                         THEN [hi EXCEPT !.panic = "attempt to add with overflow"]
                         ELSE [hi EXCEPT !.cpu.program_counter =
                                             (hi.ret * 256 + lo.ret + 1) % 65536]
                high(lo, s) == returned(lo, rd(s, 256 + lo.cpu.stack_pointer + 1))
                low(s) ==
                    LET lo == rd(s, 256 + s.cpu.stack_pointer)
                    IN  high(lo, sp_add1(lo))
            IN  low(sp_add1(Entry(c, m.bus)))
        rti ==
            LET returned(lo, hi) ==
                    IF hi.panic # "" THEN hi
                    ELSE [hi EXCEPT !.cpu.program_counter = hi.ret * 256 + lo.ret]
                high(st, lo, s) == returned(lo, rd(s, 256 + st.cpu.stack_pointer + 2))
                low(st, s) ==
                    LET lo == rd(s, 256 + st.cpu.stack_pointer + 1)
                    IN  high(st, lo, sp_add1(lo))
                flags(s) ==
                    LET st == rd(s, 256 + s.cpu.stack_pointer)
                        st1 == IF st.panic # "" THEN st
                               ELSE [st EXCEPT !.cpu.status = CPU_plp_flags(st.ret)]
                    IN  low(st1, sp_add1(st1))
            IN  flags(sp_add1(Entry(c, m.bus)))
        jmp ==
            LET s0 == Entry(c, m.bus)
                to(s) == IF s.panic # "" THEN s
                         ELSE [s EXCEPT !.cpu.program_counter = s.ret]
                word(lo, hi) ==
                    IF hi.panic # "" THEN hi ELSE [hi EXCEPT !.ret = hi.ret * 256 + lo.ret]
                u16(s, addr) ==
                    IF s.panic # "" THEN s
                    ELSE LET read(r) ==
                                 [s EXCEPT !.bus = r.bus, !.panic = r.panic, !.ret = r.ret]
                         IN  read(Bus_mem_read_u16(s.bus, addr, s.cpu.overflow_checks))
                edge(s, addr) ==
                    LET lo == rd(s, addr)
                    IN  word(lo, rd(lo, addr - (addr % 256)))
                indirect(a) ==
                    LET ref == u16(a, a.ret)
                    IN  IF a.panic # "" THEN a
                        ELSE IF a.ret % 256 = 255 THEN edge(ref, a.ret) ELSE ref
                absolute(g) ==
                    IF g.panic # "" THEN [s0 EXCEPT !.bus = g.bus, !.panic = g.panic]
                    ELSE [s0 EXCEPT !.bus = g.bus, !.cpu.program_counter = g.addr]
            IN  IF mode = "NoneAddressing"
                THEN to(indirect(u16(s0, c.program_counter)))
                ELSE absolute(operand(s0, mode))
        arith(negate) ==
            LET added(g, r) ==
                    IF r.panic # "" THEN Outcome(c, [m EXCEPT !.bus = r.bus], r.panic, -1)
                    ELSE LET sum == CPU_plus_minus(c, IF negate THEN 255 - r.ret ELSE r.ret)
                             m0 == [m EXCEPT !.bus = r.bus]
                         IN  IF g.page_cross
                             THEN Outcome(AtTick(sum, m0), M_bus_tick(m0, 1), "", -1)
                             ELSE Outcome(sum, m0, "", -1)
                value(g) ==
                    IF g.panic # "" THEN Outcome(c, [m EXCEPT !.bus = g.bus], g.panic, -1)
                    ELSE added(g, Bus_mem_read(g.bus, g.addr))
            IN  value(operand(Entry(c, m.bus), mode))
        dec_mem ==
            LET flagged(s, value) ==
                    IF s.panic # "" THEN s
                    ELSE [s EXCEPT !.cpu = CPU_update_zero_and_negative_flags(@, value)]
                stored(s, addr, value) == flagged(wr(s, addr, value), value)
                fetched(s, addr) ==
                    IF s.panic # "" THEN s
                    ELSE stored(s, addr, IF s.ret = 0 THEN 255 ELSE s.ret - 1)
                at(g) ==
                    IF g.panic # "" THEN [Entry(c, g.bus) EXCEPT !.panic = g.panic]
                    ELSE fetched(rd(Entry(c, g.bus), g.addr), g.addr)
            IN  at(operand(Entry(c, m.bus), mode))
        cmp ==
            LET compared(g, r) ==
                    IF r.panic # "" THEN Outcome(c, [m EXCEPT !.bus = r.bus], r.panic, -1)
                    ELSE LET check == (c.register_a - r.ret + 256) % 256
                             carried == [c EXCEPT !.status =
                                            WithBit(@, 0, IF c.register_a >= r.ret THEN 1 ELSE 0)]
                             c1 == CPU_update_zero_and_negative_flags(carried, check)
                             m0 == [m EXCEPT !.bus = r.bus]
                         IN  IF g.page_cross
                             THEN Outcome(AtTick(c1, m0), M_bus_tick(m0, 1), "", -1)
                             ELSE Outcome(c1, m0, "", -1)
                value(g) ==
                    IF g.panic # "" THEN Outcome(c, [m EXCEPT !.bus = g.bus], g.panic, -1)
                    ELSE compared(g, Bus_mem_read(g.bus, g.addr))
            IN  value(operand(Entry(c, m.bus), mode))
        dcp ==
            LET flagged(s, value) ==
                    IF s.panic # "" THEN s
                    ELSE [s EXCEPT !.cpu = CPU_update_zero_and_negative_flags(
                                               [@ EXCEPT !.status =
                                                    IF value <= c.register_a
                                                    THEN WithBit(@, 0, 1) ELSE @],
                                               (c.register_a - value + 256) % 256)]
                stored(s, addr, value) == flagged(wr(s, addr, value), value)
                fetched(s, addr) ==
                    IF s.panic # "" THEN s ELSE stored(s, addr, (s.ret + 255) % 256)
                at(g) ==
                    IF g.panic # "" THEN [Entry(c, g.bus) EXCEPT !.panic = g.panic]
                    ELSE fetched(rd(Entry(c, g.bus), g.addr), g.addr)
            IN  at(operand(Entry(c, m.bus), mode))
        ldx(c1, m1) ==
            LET loaded(g, r) ==
                    IF r.panic # "" THEN Outcome(c1, [m1 EXCEPT !.bus = r.bus], r.panic, -1)
                    ELSE LET c2 == CPU_update_zero_and_negative_flags(
                                       [c1 EXCEPT !.register_x = r.ret], r.ret)
                             m0 == [m1 EXCEPT !.bus = r.bus]
                         IN  IF g.page_cross
                             THEN Outcome(AtTick(c2, m0), M_bus_tick(m0, 1), "", -1)
                             ELSE Outcome(c2, m0, "", -1)
                value(g) ==
                    IF g.panic # "" THEN Outcome(c1, [m1 EXCEPT !.bus = g.bus], g.panic, -1)
                    ELSE loaded(g, Bus_mem_read(g.bus, g.addr))
            IN  value(operand(Entry(c1, m1.bus), mode))
        lax ==
            LET second(o) == IF o.panic # "" THEN o ELSE ldx(o.cpu, o.m)
                first(g) ==
                    IF g.panic # "" THEN Outcome(c, [m EXCEPT !.bus = g.bus], g.panic, -1)
                    ELSE second(CPU_lda(c, [m EXCEPT !.bus = g.bus], g.addr, g.page_cross))
            IN  first(operand(Entry(c, m.bus), mode))
        bne ==
            LET old_pc == c.program_counter
                landed(c1, m1) ==
                    IF page_cross(old_pc, c1.program_counter)
                    THEN Outcome(AtTick(c1, m1), M_bus_tick(m1, 1), "", -1)
                    ELSE Outcome(c1, m1, "", -1)
                shifted(c1, m1, value) ==
                    LET to == IF value < 128 THEN old_pc + 1 + value
                              ELSE old_pc - (255 - value)
                    IN  IF (to > 65535 \/ to < 0) /\ c.overflow_checks
                        THEN Outcome(c1, m1, IF to < 0
                                             THEN "attempt to subtract with overflow"
                                             ELSE "attempt to add with overflow", -1)
                        ELSE landed([c1 EXCEPT !.program_counter = (to + 65536) % 65536], m1)
                taken(c1, m1, r) ==
                    IF r.panic # "" THEN Outcome(c1, [m1 EXCEPT !.bus = r.bus], r.panic, -1)
                    ELSE shifted(c1, [m1 EXCEPT !.bus = r.bus], r.ret)
                ticked(c1, m1) == taken(c1, m1, Bus_mem_read(m1.bus, old_pc))
            IN  IF Bit(c.status, 1) = 0
                THEN ticked(AtTick(c, m), M_bus_tick(m, 1))
                ELSE Outcome(c, m, "", -1)
    IN  CASE mnemonic = "PHA" -> done(pha)
          [] mnemonic = "BNE" -> bne
          [] mnemonic = "PHP" -> done(php)
          [] mnemonic = "PLA" -> done(pla)
          [] mnemonic = "PLP" -> done(plp)
          [] mnemonic = "JSR" -> done(jsr)
          [] mnemonic = "RTS" -> done(rts)
          [] mnemonic = "RTI" -> done(rti)
          [] mnemonic = "JMP" -> done(jmp)
          [] mnemonic = "ADC" -> arith(FALSE)
          [] mnemonic = "SBC" -> arith(TRUE)
          [] mnemonic = "DEC" -> done(dec_mem)
          [] mnemonic = "CMP" -> cmp
          [] mnemonic = "DCP" -> done(dcp)
          [] mnemonic = "LAX" -> lax

---------------------------------------------------------------------------
\* number of handler calls made in a run
MaxCalls == 2

\* the handlers called one after another, from any registers (Y = $FF, so
\* that an address indexed by Y crosses a page unless its low byte is 0) and
\* either build profile, with two operand bytes in RAM at the program
\* counter and an NMI vector in the cartridge
InitCall ==
    \E a \in {0, 127, 128, 255}, y \in {255}, sp \in {0, 1, 253, 255},
       st \in {36, 231, 52, 243}, b1 \in {0, 1, 128, 255}, b2 \in {6, 0},
       checks \in BOOLEAN :
        /\ bus = [Bus_new([Cartridge("HORIZONTAL") EXCEPT
                               !.prg_rom = Store(Store(@, 32762, 52), 32763, 18)])
                     EXCEPT !.cpu_vram = Store(Store(@, 1536, b1), 1537, b2)]
        /\ cpu = [CPU_new EXCEPT !.register_a = a, !.register_y = y,
                                 !.stack_pointer = sp, !.status = st,
                                 !.program_counter = 1536, !.at = "fetch",
                                 !.overflow_checks = checks]
        /\ fault = ""
        /\ callbacks = 0 /\ dots = 0 /\ frames = 0 /\ cbFrame = 0
        /\ enAt241 = FALSE /\ statusRead = FALSE /\ nmis = 0
        /\ last = NoOp
        /\ nops = 0

\* one handler called as the dispatch calls it, or self.interrupt(NMI) as
\* the top of the loop calls it; last.op is the handler, last.arg its
\* addressing mode and last.addr the program counter at the call
CpuCall(mnemonic, mode) ==
    /\ fault = "" /\ nops < MaxCalls
    /\ LET called(o) ==
               /\ cpu' = IF o.panic = "" /\ o.pc >= 0
                         THEN [o.cpu EXCEPT !.program_counter = o.pc]
                         ELSE o.cpu
               /\ fault' = o.panic
               /\ Commit(o.m)
       IN  called(IF mnemonic = "NMI"
                  THEN CPU_interrupt(cpu, Here)
                  ELSE CPU_handler(cpu, Here, mnemonic, mode))
    /\ nmis' = IF mnemonic = "NMI" THEN nmis + 1 ELSE nmis
    /\ last' = Op(mnemonic, mode, 0, cpu.program_counter)
    /\ nops' = nops + 1

SpecCall ==
    InitCall /\ [][\/ \E mnemonic \in {"PHA", "PHP", "PLA", "PLP", "RTS", "RTI", "NMI", "BNE"} :
                         CpuCall(mnemonic, "NoneAddressing")
                   \/ \E mode \in {"Absolute", "NoneAddressing"} : CpuCall("JMP", mode)
                   \/ CpuCall("JSR", "Absolute")
                   \/ \E mnemonic \in {"ADC", "SBC"} : CpuCall(mnemonic, "Immediate")
                   \/ \E mnemonic \in {"DEC", "CMP", "DCP"} : CpuCall(mnemonic, "Absolute")
                   \/ CpuCall("LAX", "Absolute_Y")]_vars

\* C21: stack pointer arithmetic is modulo 256: a push (PHA and PHP one
\* byte, JSR two, NMI entry three) from any stack pointer, one that takes
\* it below $00 included, leaves S = (S - bytes pushed) mod 256 and
\* execution continues; a pull (PLA, PLP) leaves S = (S + 1) mod 256, from
\* $FF to $00 included.
C21_StackWrap ==
    [][(nops' = nops + 1 /\ last'.op \in {"PHA", "PHP", "JSR", "NMI", "PLA", "PLP"}) =>
          /\ fault' = ""
          /\ cpu'.stack_pointer
                 = (cpu.stack_pointer
                      + (CASE last'.op \in {"PHA", "PHP"} -> 255
                           [] last'.op = "JSR" -> 254
                           [] last'.op = "NMI" -> 253
                           [] OTHER -> 1)) % 256]_vars

\* C22: PHP then PLP, away from the stack boundary, is a round trip: PHP
\* stores P with bit 4 set at $0100+S and leaves P as it was, and the PLP
\* that follows leaves S where it was before the PHP and P = the original
\* P with bit 5 set and bit 4 clear.
C22_PhpPlp ==
    [][/\ (nops' = nops + 1 /\ last'.op = "PHP" /\ cpu.stack_pointer # 0) =>
              /\ fault' = ""
              /\ At(bus'.cpu_vram, 256 + cpu.stack_pointer) = WithBit(cpu.status, 4, 1)
              /\ cpu'.stack_pointer = cpu.stack_pointer - 1
              /\ cpu'.status = cpu.status
       /\ (nops' = nops + 1 /\ last'.op = "PLP" /\ last.op = "PHP"
              /\ cpu.stack_pointer # 255) =>
              /\ fault' = ""
              /\ cpu'.stack_pointer = cpu.stack_pointer + 1
              /\ cpu'.status = WithBit(WithBit(cpu.status, 4, 0), 5, 1)]_vars

\* P = %1111_0011 was pushed as it was at $01FD and pulled back as
\* %1110_0011, the stack pointer again $FD
C22_Witness ==
    /\ last.op = "PLP" /\ last.prev = "PHP"
    /\ fault = ""
    /\ cpu.status = 227
    /\ cpu.stack_pointer = 253
    /\ At(bus.cpu_vram, 509) = 243

\* C23: ADC with accumulator A, operand M and carry C leaves
\* A' = (A + M + C) mod 256, carry = (A + M + C >= 256), overflow = bit 7
\* of (M xor A') and (A xor A'), zero = (A' = 0), negative = bit 7 of A',
\* and the other flags as they were; SBC with operand M does what ADC does
\* with M xor $FF.
C23_AdcSbc ==
    [][(/\ nops' = nops + 1 /\ last'.op \in {"ADC", "SBC"} /\ last'.arg = "Immediate"
        /\ Bus_mem_read(bus, cpu.program_counter).panic = "") =>
          LET A == cpu.register_a
              byte == Bus_mem_read(bus, cpu.program_counter).ret
              M == IF last'.op = "SBC" THEN 255 - byte ELSE byte
              sum == A + M + (cpu.status % 2)
              R == sum % 256
          IN  /\ fault' = ""
              /\ cpu'.register_a = R
              /\ Bit(cpu'.status, 0) = (IF sum >= 256 THEN 1 ELSE 0)
              /\ Bit(cpu'.status, 6)
                     = (IF (M \div 128) # (R \div 128) /\ (A \div 128) # (R \div 128)
                        THEN 1 ELSE 0)
              /\ Bit(cpu'.status, 1) = (IF R = 0 THEN 1 ELSE 0)
              /\ Bit(cpu'.status, 7) = R \div 128
              /\ \A k \in {2, 3, 4, 5} : Bit(cpu'.status, k) = Bit(cpu.status, k)]_vars

\* ADC #$01 took A = $7F to $80 with overflow and negative set, and the
\* SBC #$01 after it took A to $7E with carry and overflow set
C23_Witness ==
    /\ last.op = "SBC" /\ last.prev = "ADC"
    /\ fault = ""
    /\ At(bus.cpu_vram, 1536) = 1
    /\ cpu.register_a = 126
    /\ cpu.status = 101

\* C24: LDA #v leaves A = v, Z = (v = 0) and N = (v >= 128), and the BRK
\* after it returns from the run with A, X and both flags as they were;
\* TAX leaves X = A with Z and N from X; INX leaves X = (X + 1) mod 256
\* with Z and N from X.
C24_LoadTransferIncrement ==
    [][(last'.op = "step" /\ nops' = nops + 1 /\ fault' = "") =>
          LET v == Bus_mem_read(bus, cpu.program_counter + 1).ret
              zn(r) == /\ Bit(cpu'.status, 1) = (IF r = 0 THEN 1 ELSE 0)
                       /\ Bit(cpu'.status, 7) = (IF r >= 128 THEN 1 ELSE 0)
          IN  /\ last'.arg = 169 =>
                     cpu'.register_a = v /\ zn(v) /\ cpu'.register_x = cpu.register_x
              /\ last'.arg = 0 =>
                     /\ cpu'.at = "returned"
                     /\ cpu'.register_a = cpu.register_a
                     /\ cpu'.register_x = cpu.register_x
                     /\ Bit(cpu'.status, 1) = Bit(cpu.status, 1)
                     /\ Bit(cpu'.status, 7) = Bit(cpu.status, 7)
              /\ last'.arg = 170 =>
                     /\ cpu'.register_x = cpu.register_a
                     /\ cpu'.register_a = cpu.register_a
                     /\ zn(cpu.register_a)
              /\ last'.arg = 232 =>
                     /\ cpu'.register_x = (cpu.register_x + 1) % 256
                     /\ cpu'.register_a = cpu.register_a
                     /\ zn((cpu.register_x + 1) % 256)]_vars

\* LDA #$00 at $0600 then BRK: the run returned with A = 0, Z set and N
\* clear
C24_Witness ==
    /\ last.op = "step" /\ last.arg = 0 /\ last.prev = "step"
    /\ cpu.at = "returned"
    /\ At(bus.cpu_vram, 1536) = 169 /\ At(bus.cpu_vram, 1537) = 0
    /\ cpu.program_counter = 1539
    /\ cpu.register_a = 0
    /\ Bit(cpu.status, 1) = 1 /\ Bit(cpu.status, 7) = 0

\* C25: a pass of the run loop returns from run exactly when it fetched
\* opcode $00, and then the B flag (bit 4 of P) is set; after any other
\* opcode the loop either goes on to the next fetch or the program has
\* aborted with a panic.
C25_RunReturns ==
    [][(last'.op = "step" /\ nops' = nops + 1) =>
          /\ cpu'.at = "returned" <=> (fault' = "" /\ last'.arg = 0)
          /\ cpu'.at = "returned" => Bit(cpu'.status, 4) = 1
          /\ cpu'.at # "returned" => (fault' # "" \/ cpu'.at = "fetch")]_vars

\* BRK fetched at $0600 with P = $24: run returned with P = $34
C25_Witness ==
    /\ last.op = "step" /\ last.arg = 0 /\ last.addr = 1536
    /\ nops = 1
    /\ fault = ""
    /\ cpu.at = "returned"
    /\ cpu.status = 52

---------------------------------------------------------------------------
(***************************************************************************)
(* Cartridge (cartridge.rs): Rom::new on an iNES image.                    *)
(***************************************************************************)
\* raw[from..to].to_vec()
Slice(raw, from, to) ==
    [len |-> to - from, dflt |-> raw.dflt,
     set |-> [i \in {k - from : k \in {j \in DOMAIN raw.set : j >= from /\ j < to}}
                  |-> raw.set[i + from]]]

\* variant: the trainer is never skipped
Rom_new_keep_trainer(raw) ==
    LET NES_TAG == <<78, 69, 83, 26>>
        out(rom, err, panic) == [rom |-> rom, err |-> err, panic |-> panic]
        none == <<>>
        mapper == (At(raw, 7) - (At(raw, 7) % 16)) + (At(raw, 6) \div 16)
        ines_ver == (At(raw, 7) \div 4) % 4
        four_screen == Bit(At(raw, 6), 3) = 1
        vertical_mirroring == Bit(At(raw, 6), 0) = 1
        screen_mirroring == IF four_screen THEN "FOUR_SCREEN"
                            ELSE IF vertical_mirroring THEN "VERTICAL" ELSE "HORIZONTAL"
        prg_rom_size == At(raw, 4) * PRG_ROM_PAGE_SIZE
        chr_rom_size == At(raw, 5) * CHR_ROM_PAGE_SIZE
        prg_rom_start == 16
        chr_rom_start == prg_rom_start + prg_rom_size
    IN  IF raw.len < 4 THEN out(none, "", "range end index 4 out of range for slice")
        ELSE IF <<At(raw, 0), At(raw, 1), At(raw, 2), At(raw, 3)>> # NES_TAG
        THEN out(none, "File is not in iNES file format", "")
        ELSE IF raw.len < 8 THEN out(none, "", "index out of bounds")
        ELSE IF ines_ver # 0 THEN out(none, "NES2.0 format is not supported", "")
        ELSE IF prg_rom_start + prg_rom_size > raw.len
                   \/ chr_rom_start + chr_rom_size > raw.len
        THEN out(none, "", "range end index out of range for slice")
        ELSE out([prg_rom |-> Slice(raw, prg_rom_start, prg_rom_start + prg_rom_size),
                  chr_rom |-> Slice(raw, chr_rom_start, chr_rom_start + chr_rom_size),
                  mapper |-> mapper,
                  screen_mirroring |-> screen_mirroring], "", "")

\* Rom::new(raw): the Rom of Ok, the message of Err ("" for Ok), and the
\* panic raised by an index or a slice out of the image
Rom_new(raw) ==
    LET NES_TAG == <<78, 69, 83, 26>>
        out(rom, err, panic) == [rom |-> rom, err |-> err, panic |-> panic]
        none == <<>>
        mapper == (At(raw, 7) - (At(raw, 7) % 16)) + (At(raw, 6) \div 16)
        ines_ver == (At(raw, 7) \div 4) % 4
        four_screen == Bit(At(raw, 6), 3) = 1
        vertical_mirroring == Bit(At(raw, 6), 0) = 1
        screen_mirroring == IF four_screen THEN "FOUR_SCREEN"
                            ELSE IF vertical_mirroring THEN "VERTICAL" ELSE "HORIZONTAL"
        prg_rom_size == At(raw, 4) * PRG_ROM_PAGE_SIZE
        chr_rom_size == At(raw, 5) * CHR_ROM_PAGE_SIZE
        skip_trainer == Bit(At(raw, 6), 2) = 1
        prg_rom_start == 16 + (IF skip_trainer THEN 512 ELSE 0)
        chr_rom_start == prg_rom_start + prg_rom_size
    IN  IF raw.len < 4 THEN out(none, "", "range end index 4 out of range for slice")
        ELSE IF <<At(raw, 0), At(raw, 1), At(raw, 2), At(raw, 3)>> # NES_TAG
        THEN out(none, "File is not in iNES file format", "")
        ELSE IF raw.len < 8 THEN out(none, "", "index out of bounds")
        ELSE IF ines_ver # 0 THEN out(none, "NES2.0 format is not supported", "")
        ELSE IF prg_rom_start + prg_rom_size > raw.len
                   \/ chr_rom_start + chr_rom_size > raw.len
        THEN out(none, "", "range end index out of range for slice")
        ELSE out([prg_rom |-> Slice(raw, prg_rom_start, prg_rom_start + prg_rom_size),
                  chr_rom |-> Slice(raw, chr_rom_start, chr_rom_start + chr_rom_size),
                  mapper |-> mapper,
                  screen_mirroring |-> screen_mirroring], "", "")

\* an image file read into memory, no bus or CPU built yet: the header
\* (tag, PRG and CHR page counts, the two flag bytes), an optional trainer,
\* PRG and CHR marked at their first and last bytes, as long as the header
\* says, plus or minus some bytes, or cut inside the header
InitImage ==
    \E tag3 \in {26, 0}, pages \in {<<1, 0>>, <<1, 1>>, <<2, 1>>},
       flag6 \in {0, 1, 8, 9, 49, 53, 244}, flag7 \in {0, 48, 240, 8, 4, 12},
       cut \in {0, 1, -3, 8193, 70000} :
        LET prg_start == 16 + (IF Bit(flag6, 2) = 1 THEN 512 ELSE 0)
            chr_start == prg_start + pages[1] * PRG_ROM_PAGE_SIZE
            end == chr_start + pages[2] * CHR_ROM_PAGE_SIZE
            header == Store(Store(Store(Store(Store(Store(Store(Store(
                          Filled(IF cut > end THEN 6 ELSE end - cut, 0),
                          0, 78), 1, 69), 2, 83), 3, tag3),
                          4, pages[1]), 5, pages[2]), 6, flag6), 7, flag7)
            body == Store(Store(Store(Store(Store(header,
                          16, 119), prg_start, 161), chr_start - 1, 162),
                          chr_start, 193), end - 1, 194)
            raw == [body EXCEPT !.set = [i \in {k \in DOMAIN body.set : k < body.len}
                                             |-> body.set[i]]]
        IN  /\ last = [op |-> "image", arg |-> raw, ret |-> 0, addr |-> 0, prev |-> "new"]
            /\ bus = <<>> /\ cpu = <<>>
            /\ fault = ""
            /\ callbacks = 0 /\ dots = 0 /\ frames = 0 /\ cbFrame = 0
            /\ enAt241 = FALSE /\ statusRead = FALSE /\ nmis = 0
            /\ nops = 0

\* Rom::new(&raw); last.ret is what it returned
LoadImage ==
    /\ last.op = "image" /\ fault = ""
    /\ LET loaded(r) ==
               /\ last' = [op |-> "Rom::new", arg |-> last.arg, ret |-> r, addr |-> 0,
                           prev |-> "image"]
               /\ fault' = r.panic
       IN  loaded(Rom_new(last.arg))
    /\ nops' = nops + 1
    /\ UNCHANGED <<bus, cpu, callbacks, dots, frames, cbFrame, enAt241, statusRead, nmis>>

SpecImage == InitImage /\ [][LoadImage]_vars

\* C26: Rom::new reports a bad image as an error value and never aborts:
\* an image whose first four bytes are not 4E 45 53 1A gives the
\* bad-magic error, one whose flag byte 7 has bit 2 or 3 set gives the
\* NES 2.0 error, and one shorter than 16 + trainer + PRG + CHR bytes gives
\* an error.
C26_LoadErrors ==
    last.op = "Rom::new" =>
        LET raw == last.arg
            tag_ok == <<At(raw, 0), At(raw, 1), At(raw, 2), At(raw, 3)>> = <<78, 69, 83, 26>>
            nes2 == raw.len >= 16 /\ (At(raw, 7) \div 4) % 4 # 0
            needed == 16 + (IF (At(raw, 6) \div 4) % 2 = 1 THEN 512 ELSE 0)
                         + At(raw, 4) * 16384 + At(raw, 5) * 8192
        IN  /\ fault = ""
            /\ ~tag_ok => last.ret.err = "File is not in iNES file format"
            /\ (tag_ok /\ nes2) => last.ret.err = "NES2.0 format is not supported"
            /\ (tag_ok /\ ~nes2 /\ (raw.len < 16 \/ raw.len < needed)) => last.ret.err # ""

\* C27: for a well-formed iNES 1 image Rom::new returns a Rom with
\* mapper = (flag7 & $F0) | (flag6 >> 4); mirroring four-screen if bit 3 of
\* flag6 is set, else vertical if bit 0 is set, else horizontal; PRG = the
\* byte4 * 16 KiB bytes from offset 16, or 16 + 512 if bit 2 of flag6 (a
\* trainer) is set; CHR = the byte5 * 8 KiB bytes right after PRG.
C27_RomFields ==
    LET raw == last.arg
        flag6 == At(raw, 6)
        flag7 == At(raw, 7)
        prg == 16 + (IF (flag6 \div 4) % 2 = 1 THEN 512 ELSE 0)
        chr == prg + At(raw, 4) * 16384
        end == chr + At(raw, 5) * 8192
        same(part, from, to) ==
            /\ part.len = to - from
            /\ \A i \in {0, 1, to - from - 1} \cup {k - from : k \in DOMAIN raw.set} :
                   (i >= 0 /\ i < to - from) => At(part, i) = At(raw, from + i)
            /\ \A i \in DOMAIN part.set : i >= 0 /\ i < to - from
    IN  (/\ last.op = "Rom::new"
         /\ <<At(raw, 0), At(raw, 1), At(raw, 2), At(raw, 3)>> = <<78, 69, 83, 26>>
         /\ (flag7 \div 4) % 4 = 0
         /\ raw.len >= end) =>
            /\ fault = "" /\ last.ret.err = ""
            /\ last.ret.rom.mapper = (flag7 \div 16) * 16 + (flag6 \div 16)
            /\ last.ret.rom.screen_mirroring
                   = (IF (flag6 \div 8) % 2 = 1 THEN "FOUR_SCREEN"
                      ELSE IF flag6 % 2 = 1 THEN "VERTICAL" ELSE "HORIZONTAL")
            /\ same(last.ret.rom.prg_rom, prg, chr)
            /\ same(last.ret.rom.chr_rom, chr, end)

\* an image with a trainer, two PRG pages and one CHR page, flags $35 and
\* $30: mapper $33, vertical, PRG and CHR with their marks at both ends
C27_Witness ==
    /\ last.op = "Rom::new"
    /\ fault = "" /\ last.ret.err = ""
    /\ last.arg.len = 16 + 512 + 32768 + 8192
    /\ last.ret.rom.mapper = 51
    /\ last.ret.rom.screen_mirroring = "VERTICAL"
    /\ last.ret.rom.prg_rom.len = 32768
    /\ At(last.ret.rom.prg_rom, 0) = 161 /\ At(last.ret.rom.prg_rom, 32767) = 162
    /\ last.ret.rom.chr_rom.len = 8192
    /\ At(last.ret.rom.chr_rom, 0) = 193 /\ At(last.ret.rom.chr_rom, 8191) = 194

\* C28: at every bus.tick of an instruction the run loop completes (no
\* NMI serviced after it), the registers, the flags, the RAM and the
\* program counter are already what the instruction leaves.
C28_CompleteBeforeTick ==
    [][(/\ last'.op = "step" /\ nops' = nops + 1 /\ fault' = "" /\ cpu'.at # "returned"
        /\ nmis' = nmis) =>
          \A i \in DOMAIN cpu'.ticks :
              /\ cpu'.ticks[i].register_a = cpu'.register_a
              /\ cpu'.ticks[i].register_x = cpu'.register_x
              /\ cpu'.ticks[i].status = cpu'.status
              /\ cpu'.ticks[i].cpu_vram = bus'.cpu_vram
              /\ cpu'.ticks[i].program_counter = cpu'.program_counter]_vars

\* C29: NMI service from program counter PC, stack pointer S and flags P
\* writes the high byte of PC at $0100+S, the low byte at $0100+S-1 and P
\* with bit 4 clear and bit 5 set at $0100+S-2, leaves S three lower, sets
\* the I flag, loads the program counter from $FFFA/$FFFB and advances the
\* bus by two CPU cycles; the RTI that follows restores PC, S and P with
\* bit 4 clear and bit 5 set.
C29_NmiService ==
    [][/\ (nops' = nops + 1 /\ last'.op = "NMI") =>
              LET slot(i) == 256 + ((cpu.stack_pointer + 256 - i) % 256)
              IN  /\ fault' = ""
                  /\ At(bus'.cpu_vram, slot(0)) = cpu.program_counter \div 256
                  /\ At(bus'.cpu_vram, slot(1)) = cpu.program_counter % 256
                  /\ At(bus'.cpu_vram, slot(2)) = WithBit(WithBit(cpu.status, 4, 0), 5, 1)
                  /\ cpu'.stack_pointer = (cpu.stack_pointer + 253) % 256
                  /\ cpu'.status = WithBit(cpu.status, 2, 1)
                  /\ cpu'.program_counter
                         = Bus_mem_read(bus, 65531).ret * 256 + Bus_mem_read(bus, 65530).ret
                  /\ bus'.cycles = bus.cycles + 2
       /\ (nops' = nops + 1 /\ last'.op = "RTI" /\ last.op = "NMI") =>
              /\ fault' = ""
              /\ cpu'.program_counter = last.addr
              /\ cpu'.stack_pointer = (cpu.stack_pointer + 3) % 256
              /\ cpu'.status
                     = WithBit(WithBit(At(bus.cpu_vram,
                                          256 + ((cpu.stack_pointer + 1) % 256)), 4, 0), 5, 1)
              /\ \A k \in {0, 1, 3, 6, 7} : Bit(cpu'.status, k) = Bit(cpu.status, k)]_vars

\* C30: a step of the run loop that fetches JMP absolute ($4C) or JSR
\* ($20) with operand T completes and leaves the program counter at T,
\* with no length-1 added.
C30_JumpTarget ==
    [][(last'.op = "step" /\ nops' = nops + 1 /\ last'.arg \in {76, 32}) =>
          /\ fault' = ""
          /\ cpu'.program_counter
                 = Bus_mem_read(bus, cpu.program_counter + 2).ret * 256
                       + Bus_mem_read(bus, cpu.program_counter + 1).ret]_vars

\* C31: a step of the run loop that fetches BNE ($D0) at address X with
\* operand byte b completes, and leaves the program counter at
\* (X + 2 + b as a signed byte) mod 65536 when Z is clear (the branch is
\* taken) and at X + 2 when Z is set.
C31_BranchTarget ==
    [][(last'.op = "step" /\ nops' = nops + 1 /\ last'.arg = 208) =>
          LET b == Bus_mem_read(bus, cpu.program_counter + 1).ret
              signed8 == IF b < 128 THEN b ELSE b - 256
          IN  /\ fault' = ""
              /\ cpu'.program_counter
                     = (IF Bit(cpu.status, 1) = 0
                        THEN (cpu.program_counter + 2 + signed8 + 65536) % 65536
                        ELSE cpu.program_counter + 2)]_vars

\* C32: a tick returns true exactly when it takes the scanline counter past
\* 261, and that tick leaves scanline 0, no NMI pending, and the
\* sprite-zero-hit and VBlank bits of STATUS clear; so an NMI is pending
\* only while the scanline is in 241..261.
C32_FrameWrap ==
    /\ [](Pending => bus.ppu.scanline \in VblankScanline .. (ScanlinesPerFrame - 1))
    /\ [][dots' # dots =>
            /\ (frames' = frames + 1) <=>
                   /\ bus.ppu.scanline = ScanlinesPerFrame - 1
                   /\ bus.ppu.cycles + (dots' - dots) >= DotsPerScanline
            /\ frames' \in {frames, frames + 1}
            /\ (frames' = frames + 1) =>
                   /\ bus'.ppu.scanline = 0
                   /\ ~Pending'
                   /\ Bit(bus'.ppu.status, 6) = 0
                   /\ ~is_in_vblank(bus'.ppu.status)]_vars

\* the frame has just wrapped out of a vertical blank that latched an NMI
\* (the callback ran once) and nothing is pending on scanline 0
C32_Witness ==
    /\ frames = 1
    /\ bus.ppu.scanline = 0
    /\ bus.ppu.cycles < 86
    /\ callbacks = 1
    /\ generate_vblank_nmi(bus.ppu.ctrl)
    /\ ~Pending
    /\ ~is_in_vblank(bus.ppu.status)

\* C33: PPUADDR never exceeds $3FFF.  A PPUADDR write replaces the byte the
\* latch selects and masks the result to 14 bits, a STATUS read leaves the
\* address alone, and a PPUDATA access adds 1 or 32 (PPUCTRL bit 2) with
\* carry into the high byte, masked to 14 bits.
C33_AddrIn14Bits ==
    /\ [](AddrRegister_get(bus.ppu.addr) <= 16383)
    /\ [][nops' = nops + 1 =>
            LET a == bus.ppu.addr
                addr == AddrRegister_get(a)
                addr2 == AddrRegister_get(bus'.ppu.addr)
            IN  /\ last'.op = "write_to_ppu_addr" =>
                       addr2 = (IF a.hi_ptr THEN last'.arg * 256 + a.value[2]
                                ELSE a.value[1] * 256 + last'.arg) % 16384
                /\ last'.op \in {"read_status", "write_to_scroll", "write_to_ctrl"} =>
                       addr2 = addr
                /\ (last'.op = "read_data" \/ (last'.op = "write_to_data" /\ fault' = "")) =>
                       addr2 = (addr + (IF Bit(bus.ppu.ctrl, 2) = 0 THEN 1 ELSE 32)) % 16384]_vars

\* a PPUDATA read at $05FF with the increment of 32 carried into the high
\* byte: PPUADDR is $061F
C33_Witness ==
    /\ last.op = "read_data"
    /\ last.addr = 1535
    /\ fault = ""
    /\ AddrRegister_get(bus.ppu.addr) = 1567

\* C34: every PPUDATA access, read or write, completes and leaves PPUADDR
\* advanced by 1 or 32 (PPUCTRL bit 2) modulo $4000; a write with PPUADDR
\* in $0000-$1FFF changes no PPU memory.
C34_DataIncrement ==
    [][(nops' = nops + 1 /\ last'.op \in {"read_data", "write_to_data"}) =>
          LET p == bus.ppu
              q == bus'.ppu
              addr == AddrRegister_get(p.addr)
          IN  /\ fault' = ""
              /\ AddrRegister_get(q.addr)
                     = (addr + (IF Bit(p.ctrl, 2) = 0 THEN 1 ELSE 32)) % 16384
              /\ (last'.op = "write_to_data" /\ addr <= 8191) =>
                     /\ q.chr_rom = p.chr_rom
                     /\ q.vram = p.vram
                     /\ q.palette_table = p.palette_table
                     /\ q.oam_data = p.oam_data]_vars

\* C35: a controller's read index is always in 0..8.  A write sets the
\* strobe to bit 0 of the value and resets the index to 0 only when that
\* bit is set; a write with bit 0 clear leaves the index where it was.
\* While the strobe is set every read returns bit 0 of the button mask and
\* leaves the index at 0.  No read or write changes the button mask.
C35_StrobeAndIndex ==
    /\ [](/\ bus.joypad1.button_index \in 0 .. 8
          /\ bus.joypad2.button_index \in 0 .. 8)
    /\ [][LET written(j, k) ==
                  /\ k.strobe = (last'.arg % 2 = 1)
                  /\ k.button_index = IF last'.arg % 2 = 1 THEN 0 ELSE j.button_index
                  /\ k.button_status = j.button_status
              read(j, k) ==
                  /\ k.button_status = j.button_status
                  /\ k.strobe = j.strobe
                  /\ j.strobe => /\ last'.ret = j.button_status % 2
                                 /\ j.button_index = 0
                                 /\ k.button_index = 0
          IN  /\ last'.op = "mem_write" =>
                     /\ written(bus.joypad1, bus'.joypad1)
                     /\ written(bus.joypad2, bus'.joypad2)
              /\ (last'.op = "mem_read" /\ last'.addr = 16406) =>
                     read(bus.joypad1, bus'.joypad1)
              /\ (last'.op = "mem_read" /\ last'.addr = 16407) =>
                     read(bus.joypad2, bus'.joypad2)]_vars

\* a write of 2 (bit 0 clear) with the strobe already low: controller 1 is
\* still three reads into its report and controller 2 still exhausted
C35_Witness ==
    /\ last.op = "mem_write" /\ last.arg = 2
    /\ ~last.high
    /\ last.r1 = 3
    /\ ~bus.joypad1.strobe
    /\ bus.joypad1.button_index = 3
    /\ bus.joypad2.button_index = 8
    /\ bus.joypad1.button_status = 129

\* C36: bit 5 of the status register is 1 in every state, whatever handler
\* has run and whatever byte a PLP or an RTI pulled; after a PLP or an RTI
\* bit 4 is 0.
C36_Bit5AlwaysSet ==
    /\ [](Bit(cpu.status, 5) = 1)
    /\ [][(nops' = nops + 1 /\ last'.op \in {"PLP", "RTI"} /\ fault' = "") =>
            /\ Bit(cpu'.status, 4) = 0
            /\ cpu'.status
                   = WithBit(WithBit(At(bus.cpu_vram,
                                        256 + ((cpu.stack_pointer + 1) % 256)), 4, 0), 5, 1)]_vars

\* PHA pushed A = $FF and the PLP after it pulled that byte: the status is
\* $EF, bit 4 clear
C36_Witness ==
    /\ last.op = "PLP" /\ last.prev = "PHA"
    /\ fault = ""
    /\ cpu.register_a = 255
    /\ cpu.status = 239

\* C37: every opcode byte the dispatch of the run loop handles has an entry
\* in the opcode table: a step that fetches such a byte is not aborted as
\* an unrecognized opcode, and the table holds the byte.
C37_TableCoversDispatch ==
    [][(last'.op = "step" /\ nops' = nops + 1 /\ last'.arg \in CPU_dispatch_codes) =>
          /\ fault' # "OpCode is not recognized"
          /\ \E op \in CPU_OPS_CODES : op.code = last'.arg]_vars

\* C38: load(program) stores the program from $0600 on, and the reset()
\* that follows it leaves the program counter at $0600, whatever the
\* cartridge holds at $FFFC/$FFFD.
C38_LoadThenReset ==
    [][/\ (last'.op = "load" /\ nops' = nops + 1) =>
              /\ fault' = ""
              /\ \E program \in Programs :
                     /\ Len(program) = last'.arg
                     /\ \A i \in 1 .. Len(program) :
                            At(bus'.cpu_vram, 1536 + i - 1) = program[i]
       /\ (last'.op = "reset" /\ nops' = nops + 1 /\ last.op = "load") =>
              /\ fault' = ""
              /\ cpu'.program_counter = 1536]_vars

\* C39: DCP on a memory byte M is DEC followed by CMP: the byte becomes
\* (M - 1) mod 256, A is unchanged, and with R the new byte C = (A >= R),
\* Z = (A = R) and N = bit 7 of (A - R) mod 256.
C39_DcpIsDecCmp ==
    [][(/\ nops' = nops + 1 /\ last'.op = "DCP"
        /\ CPU_get_operand_address(cpu, bus, last'.arg, cpu.program_counter).panic = "") =>
          LET addr == CPU_get_operand_address(cpu, bus, last'.arg, cpu.program_counter).addr
              A == cpu.register_a
              R == (At(bus.cpu_vram, addr) + 255) % 256
          IN  addr < 2048 =>
                /\ fault' = ""
                /\ At(bus'.cpu_vram, addr) = R
                /\ cpu'.register_a = A
                /\ Bit(cpu'.status, 0) = (IF A >= R THEN 1 ELSE 0)
                /\ Bit(cpu'.status, 1) = (IF A = R THEN 1 ELSE 0)
                /\ Bit(cpu'.status, 7) = ((A - R + 256) % 256) \div 128]_vars

\* C40: a handler other than a branch adds at most one cycle to the
\* opcode's base cycles, and adds it only when its operand address
\* crossed a page: LAX as well as the loads, compares and arithmetic.
C40_OnePageCrossCycle ==
    [][(/\ nops' = nops + 1 /\ last'.op \notin {"BNE", "NMI"} /\ fault' = "") =>
          LET crossed ==
                  /\ last'.arg # "NoneAddressing"
                  /\ CPU_get_operand_address(cpu, bus, last'.arg,
                                             cpu.program_counter).page_cross
          IN  /\ bus'.cycles - bus.cycles \in {0, 1}
              /\ bus'.cycles - bus.cycles = 1 => crossed]_vars

====
